---- MODULE Spec2Model ----
(***************************************************************************)
(* A model of blindbackup: the comparator and sync driver (syncdir.py),    *)
(* the local provider's change stream, and the continuous-sync control     *)
(* plane of bsync.py.                                                      *)
(*                                                                         *)
(* Times are whole seconds.  A stat tuple is <<atime, mtime, fsize>> as in *)
(* the code; atime is never compared and is carried as 0.                  *)
(***************************************************************************)
EXTENDS Integers, Sequences, FiniteSets, TLC

VARIABLES
    ic,     \* one call of SyncDir._info_compare: its arguments and its result
    fs,     \* the file system: absolute path -> node
    cfg,    \* the arguments of one SyncDir.sync call (options, keys, providers)
    snd,    \* the sender's sendchanges generator: a stack of frames
    rcv,    \* the receiver's receivechanges loop: position, record, batch
    hist,   \* history: the file system when sync was called, the bodies sent
    now,    \* time.time(), in seconds
    main,   \* bsync's main thread: position in do_sync / do_bg_sync
    shared, \* can_trigger, sync_lock and the options dict all threads share
    red,    \* the FsEventReducer threads: reducer -> its fields and position
    insync, \* the threads that are inside a SyncDir.sync call
    bh,     \* history of the reducers: add_event calls, handler calls, drains
    cf,     \* calls of the cryptfile functions: their arguments and results
    el,     \* the server: its EventListener and polls, or one POST request
    ls,     \* a listener thread of listenchanges and the thread that stops it
    pv      \* provider objects: their root, uid and keys

vars == <<ic, fs, cfg, snd, rcv, hist, now, main, shared, red, insync, bh, cf, el, ls, pv>>

bgVars == <<now, main, shared, red, insync, bh>>

syncVars == <<fs, cfg, snd, rcv, hist>>

(***************************************************************************)
(* SyncDir: option values and the comparator predicate                     *)
(***************************************************************************)
CMP_IGNORE == 0
CMP_CHANGED == 1
CMP_NEWER == 2
CMP_BIGGER == 3

\* Largest modification time drawn for a stat tuple.
MaxMtime == 3
\* Largest file size drawn for a stat tuple.
MaxSize == 2

\* SyncDir._checkoptions: the (mtcompare, sizecompare) pairs it accepts.
LegalCompareOptions ==
    { o \in [mtcompare : {CMP_CHANGED, CMP_NEWER, CMP_IGNORE},
             sizecompare : {CMP_CHANGED, CMP_BIGGER, CMP_IGNORE}] :
        ~(o.sizecompare = CMP_IGNORE /\ o.mtcompare = CMP_IGNORE) }

Abs(x) == IF x < 0 THEN -x ELSE x

\* SyncDir._info_compare: TRUE when the source file should be copied.
\* An mtime test that does not fire falls through to the size test.
_info_compare(srcinfo, dstinfo, options) ==
    IF options.mtcompare = CMP_NEWER /\ srcinfo[2] - dstinfo[2] > 1 THEN TRUE
    ELSE IF options.mtcompare = CMP_CHANGED /\ Abs(srcinfo[2] - dstinfo[2]) > 1 THEN TRUE
    ELSE IF options.sizecompare = CMP_BIGGER /\ srcinfo[3] > dstinfo[3] THEN TRUE
    ELSE IF options.sizecompare = CMP_CHANGED /\ srcinfo[3] # dstinfo[3] THEN TRUE
    ELSE FALSE

StatTuples == {<<0, m, s>> : m \in 0..MaxMtime, s \in 0..MaxSize}

IcIdle == [srcinfo |-> <<0, 0, 0>>, dstinfo |-> <<0, 0, 0>>,
           options |-> [mtcompare |-> CMP_CHANGED, sizecompare |-> CMP_CHANGED],
           done |-> FALSE, res |-> FALSE]

SyncIdle ==
    /\ fs = <<>>
    /\ cfg = <<>>
    /\ snd = <<>>
    /\ rcv = <<>>
    /\ hist = <<>>

\* No cryptfile function is called.
CfIdle == cf = <<>>

\* No server is running.
ElIdle == el = <<>>

\* No listener thread exists.
LsIdle == ls = <<>>

\* No provider object is followed.
PvIdle == pv = <<>>

\* No continuous sync is running.
BgIdle ==
    /\ now = 0
    /\ main = <<>>
    /\ shared = <<>>
    /\ red = <<>>
    /\ insync = {}
    /\ bh = <<>>

InitInfoCompare ==
    /\ ic \in [srcinfo : StatTuples, dstinfo : StatTuples,
               options : LegalCompareOptions, done : {FALSE}, res : {FALSE}]
    /\ SyncIdle
    /\ BgIdle
    /\ CfIdle
    /\ ElIdle
    /\ LsIdle
    /\ PvIdle

\* One call of _info_compare on the drawn arguments.
InfoCompare ==
    /\ ~ic.done
    /\ ic' = [ic EXCEPT !.done = TRUE,
                        !.res = _info_compare(ic.srcinfo, ic.dstinfo, ic.options)]
    /\ UNCHANGED <<bgVars, syncVars, cf, el, ls, pv>>

NextInfoCompare == InfoCompare

SpecInfoCompare == InitInfoCompare /\ [][NextInfoCompare]_vars

\* C3: with mtcompare=NEWER and sizecompare=BIGGER, NEWER takes precedence:
\* a source newer by more than 1s is copied even if smaller, and a source that
\* is older is not copied even if it is bigger.
C3_NewerTakesPrecedence ==
    (ic.done /\ ic.options.mtcompare = CMP_NEWER /\ ic.options.sizecompare = CMP_BIGGER)
        => /\ (ic.srcinfo[2] - ic.dstinfo[2] > 1 => ic.res = TRUE)
           /\ (ic.srcinfo[2] < ic.dstinfo[2] => ic.res = FALSE)

(***************************************************************************)
(* File names, keys and paths                                              *)
(***************************************************************************)
\* The suffix LocalFsProvider.receivechanges appends to build its temp path.
TmpSuffix == ".~tmp"

\* Plain file names.  The second one is the temp name of the first.
Names == {"a", "a" \o TmpSuffix}

NoKey == ""

SrcRoot == <<"S">>
DstRoot == <<"D">>

IsPrefix(p, q) == Len(p) <= Len(q) /\ SubSeq(q, 1, Len(p)) = p

Parent(p) == SubSeq(p, 1, Len(p) - 1)

Last(p) == p[Len(p)]

\* dstpath + ".~tmp"
TmpPath(p) == Append(Parent(p), Last(p) \o TmpSuffix)

\* cryptfile.encrypt_filename: deterministic, one ciphertext per (key, name).
encrypt_filename(k, n) == "{" \o k \o ":" \o n \o "}"

\* FsProvider.encrypt_path_items
encrypt_path_items(k, items) ==
    IF k # NoKey THEN [i \in 1..Len(items) |-> encrypt_filename(k, items[i])]
    ELSE items

(***************************************************************************)
(* The file system.  A node is a file (mtime, data, the keys its body is   *)
(* encrypted with) or a directory.  os.* calls are operators on fs.        *)
(***************************************************************************)
DirNode(m) == [kind |-> "dir", mtime |-> m, data |-> 0, enc |-> <<>>]

FileNode(m, d) == [kind |-> "file", mtime |-> m, data |-> d, enc |-> <<>>]

\* st_size of a plain file.
SizeOf(d) == d % 10

\* The mtime a freshly written file carries until os.utime is called.
NowMtime == 9

isfile(f, p) == p \in DOMAIN f /\ f[p].kind = "file"

isdir(f, p) == p \in DOMAIN f /\ f[p].kind = "dir"

Without(f, gone) == [q \in DOMAIN f \ gone |-> f[q]]

Under(f, p) == {q \in DOMAIN f : IsPrefix(p, q)}

\* os.unlink of an existing file
unlink(f, p) == Without(f, {p})

\* shutil.rmtree
rmtree(f, p) == Without(f, Under(f, p))

\* LocalFsProvider._remove: unlink a file, rmtree a directory, else nothing.
_remove(f, localpath) ==
    IF isfile(f, localpath) THEN unlink(f, localpath)
    ELSE IF isdir(f, localpath) THEN rmtree(f, localpath)
    ELSE f

\* Writing a file needs an existing parent directory and no directory in the way.
CanWrite(f, p) == isdir(f, Parent(p)) /\ ~isdir(f, p)

\* shutil.copyfile(src, dst): dst gets the bytes of src and a fresh mtime.
copyfile(f, from, to) ==
    (to :> [f[from] EXCEPT !.mtime = NowMtime]) @@ f

\* os.rename(src, dst) of a file onto a free or file path.
rename(f, from, to) == (to :> f[from]) @@ Without(f, {from})

\* os.mkdir + os.utime
mkdir(f, p, m) == (p :> DirNode(m)) @@ f

\* A receiver that leaves the times of what it wrote alone.
utime_skipped(f, p, m) == f

\* os.utime
utime(f, p, m) == [f EXCEPT ![p].mtime = m]

\* LocalFsProvider.get_localpath
get_localpath(root, relpath) == root \o relpath

\* LocalFsProvider.listdir: the names of the directories and files in a
\* directory; symbolic links are not part of the model.
listdir(f, root, relpath) ==
    LET localpath == get_localpath(root, relpath)
        kids == {q \in DOMAIN f : Len(q) = Len(localpath) + 1 /\ IsPrefix(localpath, q)}
    IN [d |-> {Last(q) : q \in {k \in kids : f[k].kind = "dir"}},
        f |-> {Last(q) : q \in {k \in kids : f[k].kind = "file"}}]

\* st_size: cryptfile.encrypt_file puts a header and padding around the body.
st_size(st) == SizeOf(st.data) + 3 * Len(st.enc)

\* cryptfile.get_origsize: the plain size an encrypted file records in its
\* header.  It is only called on trees whose files are encrypted.
get_origsize(st) == SizeOf(st.data)

\* LocalFsProvider.getinfo for one item: (atime, mtime, fsize).  The server's
\* getinfo action answers with the same method on its own tree.
getinfo(f, root, item, encrypted) ==
    LET st == f[get_localpath(root, item)]
    IN <<0, st.mtime, IF encrypted THEN get_origsize(st) ELSE st_size(st)>>

\* SyncDir._prefixed / LocalFsProvider._prefixed
_prefixed(relpath, items) == {Append(relpath, item) : item \in items}

(***************************************************************************)
(* SyncDir.compare                                                         *)
(***************************************************************************)
\* Names both sides may hold in plaintext: the drawn names and their temp names.
PlainNames == Names \cup {n \o TmpSuffix : n \in Names}

\* What decrypting a string that is no ciphertext under the key gives.
BadName == "?"

\* cryptfile.decrypt_filename: the inverse of encrypt_filename under the key.
decrypt_filename(k, e) ==
    IF \E n \in PlainNames : encrypt_filename(k, n) = e
    THEN CHOOSE n \in PlainNames : encrypt_filename(k, n) = e
    ELSE BadName

\* FsProvider.decrypt_path_items
decrypt_path_items(k, items) ==
    IF k # NoKey THEN [i \in 1..Len(items) |-> decrypt_filename(k, items[i])]
    ELSE items

\* FsProvider.recrypt_path_items with the provider's two keys.
recrypt_path_items(deckey, enckey, items) ==
    IF enckey # NoKey /\ deckey # NoKey
    THEN encrypt_path_items(enckey, decrypt_path_items(deckey, items))
    ELSE IF deckey # NoKey THEN decrypt_path_items(deckey, items)
    ELSE IF enckey # NoKey THEN encrypt_path_items(enckey, items)
    ELSE items

\* SyncDir._docompare at relpath (a plaintext path): the deletions, the
\* directory copies and the file copies of this directory and, recursively,
\* of the directories both sides have.  The lists are built from Python sets;
\* they are kept as sets here and iterated in any order.
RECURSIVE _docompare(_, _, _)
_docompare(f, c, relpath) ==
    LET sl == listdir(f, SrcRoot, encrypt_path_items(c.srckey, relpath))
        dl == listdir(f, DstRoot, encrypt_path_items(c.dstkey, relpath))
        sd(n) == IF c.srckey # NoKey THEN decrypt_filename(c.srckey, n) ELSE n
        dd(n) == IF c.dstkey # NoKey THEN decrypt_filename(c.dstkey, n) ELSE n
        src_dnames == {sd(n) : n \in sl.d}
        src_fnames == {sd(n) : n \in sl.f}
        dst_dnames == {dd(n) : n \in dl.d}
        dst_fnames == {dd(n) : n \in dl.f}
        srcitems == src_fnames \cup src_dnames
        dstitems == dst_fnames \cup dst_dnames
        items == _prefixed(relpath, src_fnames \cap dst_fnames)
        changed == {i \in items :
                      _info_compare(
                          getinfo(f, SrcRoot, encrypt_path_items(c.srckey, i),
                                  c.srckey # NoKey),
                          getinfo(f, DstRoot, encrypt_path_items(c.dstkey, i),
                                  c.dstkey # NoKey), c)}
        subs == {_docompare(f, c, Append(relpath, dname)) :
                      dname \in src_dnames \cap dst_dnames}
    IN [delet |-> (IF c.syncdelete THEN _prefixed(relpath, dstitems \ srcitems) ELSE {})
                      \cup UNION {s.delet : s \in subs},
        dcopy |-> _prefixed(relpath, src_dnames \ dst_dnames)
                      \cup UNION {s.dcopy : s \in subs},
        fcopy |-> _prefixed(relpath, src_fnames \ dst_fnames) \cup changed
                      \cup UNION {s.fcopy : s \in subs}]

\* SyncDir.compare
compare(f, c) == _docompare(f, c, <<>>)

(***************************************************************************)
(* The change stream: FsProvider.DELETE / DIRECTORY / FILE records and the *)
(* sendchanges generators of LocalFsProvider and BlindFsProvider           *)
(***************************************************************************)
SENDER == 0
RECEIVER == 1

NoPath == <<>>

\* The directory create_tmp_file_for(self.tmpdir) makes the download files in.
TmpRoot == <<"T">>

NoRec == [op |-> "none", path |-> NoPath, mtime |-> 0, fsize |-> 0,
          fsource |-> NoPath, owner |-> SENDER]

\* An activation of sendchanges that forgets its fcopy list.
FrameWithoutFiles(delet, dcopy, fcopy) ==
    [delet |-> delet, dcopy |-> dcopy, fcopy |-> {}, pend |-> <<>>, tmp |-> <<>>]

\* One activation of sendchanges(delet, dcopy, fcopy): what it still has to
\* yield, the directory whose content it lists when resumed (pend), and the
\* download file its finally clause unlinks when resumed (tmp).
Frame(delet, dcopy, fcopy) ==
    [delet |-> delet, dcopy |-> dcopy, fcopy |-> fcopy, pend |-> NoPath, tmp |-> NoPath]

Top(g) == g[Len(g)]
Front(g) == SubSeq(g, 1, Len(g) - 1)
SetTop(g, fr) == [g EXCEPT ![Len(g)] = fr]

RECURSIVE JoinPath(_)
JoinPath(p) == IF p = <<>> THEN "" ELSE "/" \o p[1] \o JoinPath(Tail(p))

\* util.create_tmp_file_for(fpath): a new file with a random name in the
\* directory of fpath.  The name is one no other file of the model has.
create_tmp_file_for(fpath) == Append(Parent(fpath), "tmp~" \o JoinPath(fpath))

\* BlindFsProvider.sendchanges resumed after a FILE record: its finally clause
\* unlinks the download file if it is still there.
SenderFinally(f, g) ==
    IF g # <<>> /\ Top(g).tmp # NoPath /\ isfile(f, Top(g).tmp)
    THEN unlink(f, Top(g).tmp)
    ELSE f

ClearTmp(g) == IF g = <<>> THEN g ELSE SetTop(g, [Top(g) EXCEPT !.tmp = NoPath])

\* sendchanges resumed by next(): after a DIRECTORY record the directory is
\* listed and a nested activation started; an activation with nothing left
\* returns to its caller.  The result is the stack at the next yield, empty
\* when the outermost activation has returned.
RECURSIVE Resume(_, _)
Resume(f, g) ==
    IF g = <<>> THEN g
    ELSE LET top == Top(g) IN
         IF top.pend # NoPath THEN
             LET l == listdir(f, SrcRoot, top.pend)
             IN Resume(f, Append(SetTop(g, [top EXCEPT !.pend = NoPath]),
                                 Frame({}, _prefixed(top.pend, l.d),
                                           _prefixed(top.pend, l.f))))
         ELSE IF top.delet = {} /\ top.dcopy = {} /\ top.fcopy = {}
              THEN Resume(f, Front(g))
         ELSE g

\* The FILE record of fpath and what yielding it does.  LocalFsProvider stats
\* the file and hands out its own path, owned by the SENDER.  BlindFsProvider
\* downloads the body into a temp file and hands that out, owned by the
\* RECEIVER.
FileChange(f, g, kind, fpath) ==
    LET localpath == get_localpath(SrcRoot, fpath)
        st == f[localpath]
        dl == create_tmp_file_for(TmpRoot)
        rest == [Top(g) EXCEPT !.fcopy = @ \ {fpath}]
    IN IF kind = "local"
       THEN [rec |-> [op |-> "file", path |-> fpath, mtime |-> st.mtime,
                      fsize |-> st_size(st), fsource |-> localpath, owner |-> SENDER],
             f |-> f,
             g |-> SetTop(g, rest)]
       ELSE [rec |-> [op |-> "file", path |-> fpath, mtime |-> st.mtime,
                      fsize |-> st_size(st), fsource |-> dl, owner |-> RECEIVER],
             f |-> (dl :> [st EXCEPT !.mtime = NowMtime]) @@ f,
             g |-> SetTop(g, [rest EXCEPT !.tmp = dl])]

\* next(sender): the records the generator may yield next (the lists of
\* compare are built from sets, so any element of the current list may come
\* first), each with the file system and the generator after the yield.
NextChanges(f0, g0, kind) ==
    LET f == SenderFinally(f0, g0)
        g == Resume(f, ClearTmp(g0))
    IN IF g = <<>> THEN {}
       ELSE IF Top(g).delet # {} THEN
           {[rec |-> [NoRec EXCEPT !.op = "delete", !.path = dpath],
             f |-> f,
             g |-> SetTop(g, [Top(g) EXCEPT !.delet = @ \ {dpath}])] :
               dpath \in Top(g).delet}
       ELSE IF Top(g).dcopy # {} THEN
           {[rec |-> [NoRec EXCEPT !.op = "directory", !.path = dpath,
                                   !.mtime = f[get_localpath(SrcRoot, dpath)].mtime],
             f |-> f,
             g |-> SetTop(g, [Top(g) EXCEPT !.dcopy = @ \ {dpath}, !.pend = dpath])] :
               dpath \in Top(g).dcopy}
       ELSE {FileChange(f, g, kind, fpath) : fpath \in Top(g).fcopy}

(***************************************************************************)
(* SyncDir.sync and LocalFsProvider.receivechanges                         *)
(***************************************************************************)
\* The receiver's path of a record: recrypt_path_items, then the root.
\* sync() sets dst.decryptionkey = srckey and dst.encryptionkey = dstkey.
DstPath(selpath) ==
    get_localpath(DstRoot, recrypt_path_items(cfg.srckey, cfg.dstkey, selpath))

\* SyncDir.sync up to the first next(sender): compare, then the scheduled
\* paths are encrypted with the source key and handed to src.sendchanges.
Sync ==
    /\ rcv.pc = "idle"
    /\ LET r == compare(fs, cfg)
           e(paths) == {encrypt_path_items(cfg.srckey, q) : q \in paths}
       IN snd' = <<Frame(e(r.delet), e(r.dcopy), e(r.fcopy))>>
    /\ rcv' = [rcv EXCEPT !.pc = "loop"]
    /\ UNCHANGED <<bgVars, cf, el, ls, pv, ic, fs, cfg, hist>>

\* The FILE records with a SENDER-owned body handed to the receiver so far.
Sent(rec) ==
    [hist EXCEPT !.sent = IF rec.op = "file" /\ rec.owner = SENDER
                          THEN @ \cup {rec.fsource} ELSE @]

\* (DELETE, path): self._remove(localpath)
RecvDelete ==
    /\ cfg.dstkind = "local"
    /\ rcv.pc = "loop"
    /\ \E c \in NextChanges(fs, snd, cfg.srckind) :
         /\ c.rec.op = "delete"
         /\ fs' = _remove(c.f, DstPath(c.rec.path))
         /\ snd' = c.g
    /\ UNCHANGED <<bgVars, cf, el, ls, pv, ic, cfg, rcv, hist>>

\* (DIRECTORY, path, atime, mtime): remove what is at the path, make the
\* directory, set its times.  os.mkdir raises when the parent is no directory.
RecvDirectory ==
    /\ cfg.dstkind = "local"
    /\ rcv.pc = "loop"
    /\ \E c \in NextChanges(fs, snd, cfg.srckind) :
         /\ c.rec.op = "directory"
         /\ snd' = c.g
         /\ LET localpath == DstPath(c.rec.path)
                cleared == _remove(c.f, localpath)
            IN IF isdir(cleared, Parent(localpath))
               THEN /\ fs' = mkdir(cleared, localpath, c.rec.mtime)
                    /\ rcv' = rcv
               ELSE /\ fs' = cleared
                    /\ rcv' = [rcv EXCEPT !.pc = "failed"]
    /\ UNCHANGED <<bgVars, cf, el, ls, pv, ic, cfg, hist>>

\* A receiver that takes every body for its own.
OwnerDeletesAlways(owner) == TRUE

\* delete_orig = owner == self.RECEIVER
OwnerDeletes(owner) == owner = RECEIVER

\* cryptfile.encrypt_file(key, in, out): out holds the body of in under key.
encrypt_file(f, key, from, to) ==
    (to :> [f[from] EXCEPT !.mtime = NowMtime, !.enc = <<key>> \o @]) @@ f

\* cryptfile.decrypt_file(key, in, out) of a body encrypted under key.
decrypt_file(f, key, from, to) ==
    (to :> [f[from] EXCEPT !.mtime = NowMtime, !.enc = Tail(@)]) @@ f

Encrypted(f, p, key) == f[p].enc # <<>> /\ Head(f[p].enc) = key

\* The statements of the FILE record that produce dstpath + ".~tmp".  With
\* both keys set, cryptfile.hashkey is applied to keys that are already
\* hashed (bytes have no encode()) and raises before anything is written.
\* ok is FALSE when a call raises; delete_orig is the flag as the finally
\* clause will see it.
WriteTmp(f, rec, tmp, deckey, enckey) ==
    LET owned == OwnerDeletes(rec.owner) IN
    IF enckey # NoKey /\ deckey # NoKey
        THEN [ok |-> FALSE, f |-> f, delete_orig |-> owned]
    ELSE IF ~CanWrite(f, tmp)
        THEN [ok |-> FALSE, f |-> f, delete_orig |-> owned]
    ELSE IF enckey # NoKey
        THEN [ok |-> TRUE, f |-> encrypt_file(f, enckey, rec.fsource, tmp),
              delete_orig |-> owned]
    ELSE IF deckey # NoKey
        THEN IF Encrypted(f, rec.fsource, deckey)
             THEN [ok |-> TRUE, f |-> decrypt_file(f, deckey, rec.fsource, tmp),
                   delete_orig |-> owned]
             ELSE [ok |-> FALSE, f |-> f, delete_orig |-> owned]
    ELSE IF rec.owner = RECEIVER
        THEN [ok |-> TRUE, f |-> rename(f, rec.fsource, tmp), delete_orig |-> FALSE]
    ELSE [ok |-> TRUE, f |-> copyfile(f, rec.fsource, tmp), delete_orig |-> owned]

\* The finally clause of the FILE record: os.unlink(fsource) if delete_orig.
\* os.unlink of a missing file raises.
FileFinally(f, rec, delete_orig) ==
    IF delete_orig /\ isfile(f, rec.fsource) THEN unlink(f, rec.fsource) ELSE f

\* (FILE, path, atime, mtime, fsize, fsource, owner), first part: write
\* dstpath + ".~tmp".  If that raises, the finally clause runs and the
\* exception leaves receivechanges.
RecvFile ==
    /\ cfg.dstkind = "local"
    /\ rcv.pc = "loop"
    /\ \E c \in NextChanges(fs, snd, cfg.srckind) :
         /\ c.rec.op = "file"
         /\ snd' = c.g
         /\ hist' = Sent(c.rec)
         /\ LET w == WriteTmp(c.f, c.rec, TmpPath(DstPath(c.rec.path)),
                              cfg.srckey, cfg.dstkey)
            IN IF w.ok
               THEN /\ fs' = w.f
                    /\ rcv' = [rcv EXCEPT !.pc = "remove", !.rec = c.rec,
                                          !.delete_orig = w.delete_orig]
               ELSE /\ fs' = FileFinally(w.f, c.rec, w.delete_orig)
                    /\ rcv' = [rcv EXCEPT !.pc = "failed", !.rec = c.rec,
                                          !.delete_orig = w.delete_orig]
    /\ UNCHANGED <<bgVars, cf, el, ls, pv, ic, cfg>>

\* FILE record, next statement: self._remove(dstpath)
RecvFileRemove ==
    /\ rcv.pc = "remove"
    /\ fs' = _remove(fs, DstPath(rcv.rec.path))
    /\ rcv' = [rcv EXCEPT !.pc = "rename"]
    /\ UNCHANGED <<bgVars, cf, el, ls, pv, ic, cfg, snd, hist>>

\* FILE record, next statement: os.rename(dstpath + ".~tmp", dstpath)
RecvFileRename ==
    /\ rcv.pc = "rename"
    /\ fs' = rename(fs, TmpPath(DstPath(rcv.rec.path)), DstPath(rcv.rec.path))
    /\ rcv' = [rcv EXCEPT !.pc = "utime"]
    /\ UNCHANGED <<bgVars, cf, el, ls, pv, ic, cfg, snd, hist>>

\* FILE record, last statement: os.utime(dstpath, (atime, mtime)), then the
\* finally clause, then back to next(sender).
RecvFileUtime ==
    /\ rcv.pc = "utime"
    /\ fs' = FileFinally(utime(fs, DstPath(rcv.rec.path), rcv.rec.mtime),
                         rcv.rec, rcv.delete_orig)
    /\ rcv' = [rcv EXCEPT !.pc = "loop", !.rec = NoRec, !.delete_orig = FALSE]
    /\ UNCHANGED <<bgVars, cf, el, ls, pv, ic, cfg, snd, hist>>

\* An I/O error in one of the FILE record's system calls: the finally clause
\* runs and the exception leaves receivechanges and sync.
RecvFileError ==
    /\ rcv.pc \in {"remove", "rename", "utime"}
    /\ fs' = FileFinally(fs, rcv.rec, rcv.delete_orig)
    /\ rcv' = [rcv EXCEPT !.pc = "failed"]
    /\ UNCHANGED <<bgVars, cf, el, ls, pv, ic, cfg, snd, hist>>

\* next(sender) raises StopIteration: receivechanges and sync return.
RecvStop ==
    /\ cfg.dstkind = "local"
    /\ rcv.pc = "loop"
    /\ NextChanges(fs, snd, cfg.srckind) = {}
    /\ fs' = SenderFinally(fs, snd)
    /\ snd' = <<>>
    /\ rcv' = [rcv EXCEPT !.pc = "done"]
    /\ UNCHANGED <<bgVars, cf, el, ls, pv, ic, cfg, hist>>

(***************************************************************************)
(* BlindFsProvider.receivechanges and the server's receivechanges action   *)
(***************************************************************************)
\* cnt > 1000, scaled to the trees of the model.
BatchMaxCnt == 1
\* totalsize > 1024 * 1024, scaled to the file sizes of the model.
BatchMaxBytes == 3

NoBatch == [delet |-> <<>>, dcopy |-> <<>>, fcopy |-> <<>>, files |-> <<>>,
            encfiles |-> <<>>, ownedfiles |-> <<>>]

\* if cnt > 1000 or totalsize > 1024 * 1024
BatchFull(cnt, totalsize) == cnt > BatchMaxCnt \/ totalsize > BatchMaxBytes

AfterRecord(r) == [r EXCEPT !.pc = IF BatchFull(r.cnt, r.totalsize) THEN "flush" ELSE "loop"]

\* The history of a run that keeps the named log, with recs appended to it.
Logged(h, log, recs) ==
    IF log \in DOMAIN h THEN [h EXCEPT ![log] = @ \o recs] ELSE h

\* The record as the receiver takes it from next(sender), its path recrypted.
Arrived(rec) ==
    <<[op |-> rec.op, path |-> recrypt_path_items(cfg.srckey, cfg.dstkey, rec.path)]>>

\* (DELETE, path): recrypt the path, append to delet.
BlindRecvDelete ==
    /\ cfg.dstkind = "blind"
    /\ rcv.pc = "loop"
    /\ \E c \in NextChanges(fs, snd, cfg.srckind) :
         /\ c.rec.op = "delete"
         /\ fs' = c.f
         /\ snd' = c.g
         /\ rcv' = AfterRecord(
                [rcv EXCEPT !.cnt = @ + 1,
                            !.batch.delet = Append(@,
                                recrypt_path_items(cfg.srckey, cfg.dstkey, c.rec.path))])
         /\ hist' = Logged(hist, "arrived", Arrived(c.rec))
    /\ UNCHANGED <<bgVars, cf, el, ls, pv, ic, cfg>>

\* (DIRECTORY, path, atime, mtime): recrypt the path, append to dcopy.
BlindRecvDirectory ==
    /\ cfg.dstkind = "blind"
    /\ rcv.pc = "loop"
    /\ \E c \in NextChanges(fs, snd, cfg.srckind) :
         /\ c.rec.op = "directory"
         /\ fs' = c.f
         /\ snd' = c.g
         /\ rcv' = AfterRecord(
                [rcv EXCEPT !.cnt = @ + 1,
                            !.batch.dcopy = Append(@,
                                [path |-> recrypt_path_items(cfg.srckey, cfg.dstkey, c.rec.path),
                                 mtime |-> c.rec.mtime])])
         /\ hist' = Logged(hist, "arrived", Arrived(c.rec))
    /\ UNCHANGED <<bgVars, cf, el, ls, pv, ic, cfg>>

\* An empty file just made by tempfile.NamedTemporaryFile(delete=False).
EmptyFile == [kind |-> "file", mtime |-> NowMtime, data |-> 0, enc |-> <<>>]

\* (FILE, path, atime, mtime, fsize, fpath, owner): a RECEIVER-owned fpath is
\* noted in ownedfiles; the record goes to fcopy; with a key set the body is
\* transformed into create_tmp_file_for(fpath), a new file next to fpath, and
\* that file is the one to upload.  With both keys set cryptfile.hashkey
\* raises on the hashed key after the temp file has been made.
BlindRecvFile ==
    /\ cfg.dstkind = "blind"
    /\ rcv.pc = "loop"
    /\ \E c \in NextChanges(fs, snd, cfg.srckind) :
         /\ c.rec.op = "file"
         /\ snd' = c.g
         /\ hist' = Logged(Sent(c.rec), "arrived", Arrived(c.rec))
         /\ LET selpath == recrypt_path_items(cfg.srckey, cfg.dstkey, c.rec.path)
                fpath == c.rec.fsource
                encpath == create_tmp_file_for(fpath)
                made == (encpath :> EmptyFile) @@ c.f
                r1 == [rcv EXCEPT
                         !.cnt = @ + 1,
                         !.totalsize = @ + c.rec.fsize,
                         !.batch.ownedfiles = IF c.rec.owner = RECEIVER
                                              THEN Append(@, fpath) ELSE @,
                         !.batch.fcopy = Append(@, [path |-> selpath,
                                                    mtime |-> c.rec.mtime,
                                                    fsize |-> c.rec.fsize])]
                viaTmp(f) == /\ fs' = f
                             /\ rcv' = AfterRecord(
                                    [r1 EXCEPT !.batch.encfiles = Append(@, encpath),
                                               !.batch.files = Append(@, encpath)])
            IN IF cfg.dstkey # NoKey /\ cfg.srckey # NoKey
               THEN /\ fs' = made
                    /\ rcv' = [r1 EXCEPT !.pc = "failed"]
               ELSE IF cfg.dstkey # NoKey
               THEN viaTmp(encrypt_file(made, cfg.dstkey, fpath, encpath))
               ELSE IF cfg.srckey # NoKey
               THEN IF Encrypted(made, fpath, cfg.srckey)
                    THEN viaTmp(decrypt_file(made, cfg.srckey, fpath, encpath))
                    ELSE /\ fs' = made
                         /\ rcv' = [r1 EXCEPT !.pc = "failed"]
               ELSE /\ fs' = c.f
                    /\ rcv' = AfterRecord([r1 EXCEPT !.batch.files = Append(@, fpath)])
    /\ UNCHANGED <<bgVars, cf, el, ls, pv, ic, cfg>>

\* The server's LocalFsProvider(root).receivechanges on one DIRECTORY record.
ServerDirectory(f, d) ==
    LET localpath == get_localpath(DstRoot, d.path)
        cleared == _remove(f, localpath)
    IN IF isdir(cleared, Parent(localpath))
       THEN [ok |-> TRUE, f |-> mkdir(cleared, localpath, d.mtime)]
       ELSE [ok |-> FALSE, f |-> cleared]

\* The server's LocalFsProvider(root).receivechanges on one FILE record whose
\* body is the uploaded part, handed over as owned by the SENDER: copy to
\* dstpath + ".~tmp", remove dstpath, rename, utime.
ServerFile(f, r, body) ==
    LET dstpath == get_localpath(DstRoot, r.path)
        tmp == TmpPath(dstpath)
    IN IF ~CanWrite(f, tmp) THEN [ok |-> FALSE, f |-> f]
       ELSE LET f1 == (tmp :> [body EXCEPT !.mtime = NowMtime]) @@ f
                f2 == _remove(f1, dstpath)
                f3 == rename(f2, tmp, dstpath)
            IN [ok |-> TRUE, f |-> utime(f3, dstpath, r.mtime)]

RECURSIVE ServerDeletes(_, _)
ServerDeletes(f, delet) ==
    IF delet = <<>> THEN f
    ELSE ServerDeletes(_remove(f, get_localpath(DstRoot, Head(delet))), Tail(delet))

\* n counts the records handed to the provider, the failing one included.
RECURSIVE ServerDirectories(_, _)
ServerDirectories(f, dcopy) ==
    IF dcopy = <<>> THEN [ok |-> TRUE, f |-> f, n |-> 0]
    ELSE LET r == ServerDirectory(f, Head(dcopy))
         IN IF r.ok
            THEN [ServerDirectories(r.f, Tail(dcopy)) EXCEPT !.n = @ + 1]
            ELSE [ok |-> FALSE, f |-> r.f, n |-> 1]

RECURSIVE ServerFiles(_, _, _)
ServerFiles(f, fcopy, bodies) ==
    IF fcopy = <<>> THEN [ok |-> TRUE, f |-> f, n |-> 0]
    ELSE LET r == ServerFile(f, Head(fcopy), Head(bodies))
         IN IF r.ok
            THEN [ServerFiles(r.f, Tail(fcopy), Tail(bodies)) EXCEPT !.n = @ + 1]
            ELSE [ok |-> FALSE, f |-> r.f, n |-> 1]

\* The records of one kind as the server's provider is handed them.
Handled(op, recs, n) == [i \in 1..n |-> [op |-> op, path |-> recs[i].path]]

\* A server that hands the files of a request to its provider before the
\* deletions and the directories.
ServerFilesFirst(f, b, bodies) ==
    LET c == ServerFiles(f, b.fcopy, bodies)
        d == ServerDirectories(ServerDeletes(c.f, b.delet), b.dcopy)
        dels == [i \in 1..Len(b.delet) |-> [op |-> "delete", path |-> b.delet[i]]]
    IN IF c.ok
       THEN [ok |-> d.ok, f |-> d.f,
             log |-> Handled("file", b.fcopy, c.n) \o dels
                        \o Handled("directory", b.dcopy, d.n)]
       ELSE [ok |-> FALSE, f |-> c.f, log |-> Handled("file", b.fcopy, c.n)]

\* The server's receivechanges action: the deletions, then the directories,
\* then the files of one request.  log is the records in the order they are
\* handed to dst.receivechanges.
ServerReceiveChanges(f, b, bodies) ==
    LET d == ServerDirectories(ServerDeletes(f, b.delet), b.dcopy)
        c == ServerFiles(d.f, b.fcopy, bodies)
        dels == [i \in 1..Len(b.delet) |-> [op |-> "delete", path |-> b.delet[i]]]
    IN IF d.ok
       THEN [ok |-> c.ok, f |-> c.f,
             log |-> dels \o Handled("directory", b.dcopy, d.n)
                        \o Handled("file", b.fcopy, c.n)]
       ELSE [ok |-> FALSE, f |-> d.f,
             log |-> dels \o Handled("directory", b.dcopy, d.n)]

\* for path in paths: os.unlink(path), which raises on a missing file.
RECURSIVE UnlinkAll(_, _)
UnlinkAll(f, paths) ==
    IF paths = <<>> THEN [ok |-> TRUE, f |-> f]
    ELSE IF ~isfile(f, Head(paths)) THEN [ok |-> FALSE, f |-> f]
    ELSE UnlinkAll(unlink(f, Head(paths)), Tail(paths))

\* self.client("receivechanges", ...) followed by the unlinking of encfiles
\* and ownedfiles.  The request reads every file of files when it is posted;
\* a file that is gone, or an error on the server, raises out of
\* receivechanges before anything is unlinked.
BlindFlush ==
    /\ rcv.pc \in {"flush", "lastflush"}
    /\ LET b == rcv.batch
           readable == \A i \in 1..Len(b.files) : isfile(fs, b.files[i])
           bodies == [i \in 1..Len(b.files) |-> fs[b.files[i]]]
           served == ServerReceiveChanges(fs, b, bodies)
           u1 == UnlinkAll(served.f, b.encfiles)
           u2 == UnlinkAll(u1.f, b.ownedfiles)
       IN /\ hist' = IF readable THEN Logged(hist, "handled", <<served.log>>) ELSE hist
          /\ IF ~readable
             THEN /\ fs' = fs
                  /\ rcv' = [rcv EXCEPT !.pc = "failed"]
             ELSE IF ~served.ok
             THEN /\ fs' = served.f
                  /\ rcv' = [rcv EXCEPT !.pc = "failed"]
             ELSE IF ~u1.ok
             THEN /\ fs' = u1.f
                  /\ rcv' = [rcv EXCEPT !.pc = "failed"]
             ELSE IF ~u2.ok
             THEN /\ fs' = u2.f
                  /\ rcv' = [rcv EXCEPT !.pc = "failed", !.batch.encfiles = <<>>]
             ELSE /\ fs' = u2.f
                  /\ rcv' = IF rcv.pc = "flush"
                            THEN [rcv EXCEPT !.pc = "loop", !.batch = NoBatch]
                            ELSE [rcv EXCEPT !.pc = "done", !.batch.encfiles = <<>>,
                                             !.batch.ownedfiles = <<>>]
    /\ UNCHANGED <<bgVars, cf, el, ls, pv, ic, cfg, snd>>

\* A receiver that makes no request at the end of the stream.
BlindStopWithoutRequest ==
    /\ cfg.dstkind = "blind"
    /\ rcv.pc = "loop"
    /\ NextChanges(fs, snd, cfg.srckind) = {}
    /\ fs' = SenderFinally(fs, snd)
    /\ snd' = <<>>
    /\ rcv' = [rcv EXCEPT !.pc = "done"]
    /\ UNCHANGED <<bgVars, cf, el, ls, pv, ic, cfg, hist>>

\* next(sender) raises StopIteration: if cnt, the last request is made.
BlindStop ==
    /\ cfg.dstkind = "blind"
    /\ rcv.pc = "loop"
    /\ NextChanges(fs, snd, cfg.srckind) = {}
    /\ fs' = SenderFinally(fs, snd)
    /\ snd' = <<>>
    /\ rcv' = [rcv EXCEPT !.pc = IF rcv.cnt # 0 THEN "lastflush" ELSE "done"]
    /\ UNCHANGED <<bgVars, cf, el, ls, pv, ic, cfg, hist>>

(***************************************************************************)
(* Initial trees                                                           *)
(***************************************************************************)
\* The number of files and directories the two trees hold together.
MaxNodes == 3

FileMtimes == {0, 2}

\* File contents: the source's files hold 1 or 2, the destination's 11 or 12;
\* SizeOf gives sizes 1 and 2 on both sides.
SrcData == {1, 2}
DstData == {11, 12}

\* The trees one more node makes of tree t.
Grow(t, datas) ==
    LET free == {Append(q, n) : q \in {d \in DOMAIN t : t[d].kind = "dir"}, n \in Names}
                    \ DOMAIN t
        nodes == {DirNode(0)} \cup {FileNode(m, d) : m \in FileMtimes, d \in datas}
    IN {(q :> nd) @@ t : q \in free, nd \in nodes}

RECURSIVE TreesOfSize(_, _, _)
TreesOfSize(n, root, datas) ==
    IF n = 0 THEN {(root :> DirNode(0))}
    ELSE UNION {Grow(t, datas) : t \in TreesOfSize(n - 1, root, datas)}

\* A tree as a provider with the key keeps it: names and bodies encrypted.
Stored(t, root, key) ==
    IF key = NoKey THEN t
    ELSE LET at(q) == root \o encrypt_path_items(key, SubSeq(q, Len(root) + 1, Len(q)))
             node(q) == IF t[q].kind = "file" THEN [t[q] EXCEPT !.enc = <<key>>] ELSE t[q]
         IN [e \in {at(q) : q \in DOMAIN t} |->
                node(CHOOSE q \in DOMAIN t : at(q) = e)]

InitTrees(srckey, dstkey) ==
    UNION {{Stored(ts, SrcRoot, srckey) @@ Stored(td, DstRoot, dstkey) :
                ts \in TreesOfSize(ij[1], SrcRoot, SrcData),
                td \in TreesOfSize(ij[2], DstRoot, DstData)} :
           ij \in {x \in (0..MaxNodes) \X (0..MaxNodes) : x[1] + x[2] <= MaxNodes}}

RcvIdle == [pc |-> "idle", rec |-> NoRec, delete_orig |-> FALSE,
            batch |-> NoBatch, cnt |-> 0, totalsize |-> 0]

SyncOptions(mt, sz, kinds, srckeys, dstkeys) ==
    {c \in [syncdelete : BOOLEAN, mtcompare : mt, sizecompare : sz,
            srckey : srckeys, dstkey : dstkeys,
            srckind : kinds, dstkind : kinds] :
        ~(c.sizecompare = CMP_IGNORE /\ c.mtcompare = CMP_IGNORE)}

\* One sync between two local directories, no keys, every legal option pair.
InitSync ==
    /\ ic = IcIdle
    /\ CfIdle
    /\ ElIdle
    /\ LsIdle
    /\ PvIdle
    /\ cfg \in SyncOptions({CMP_CHANGED, CMP_NEWER, CMP_IGNORE},
                           {CMP_CHANGED, CMP_BIGGER, CMP_IGNORE},
                           {"local"}, {NoKey}, {NoKey})
    /\ fs \in InitTrees(NoKey, NoKey)
    /\ snd = <<>>
    /\ rcv = RcvIdle
    /\ hist = [fs0 |-> fs, sent |-> {}]
    /\ BgIdle

NextSync ==
    \/ Sync
    \/ RecvDelete
    \/ RecvDirectory
    \/ RecvFile
    \/ RecvFileRemove
    \/ RecvFileRename
    \/ RecvFileUtime
    \/ RecvFileError
    \/ RecvStop

SpecSync == InitSync /\ [][NextSync]_vars

\* One sync for every pairing of a local or remote source with a local or
\* remote destination, each side with or without a key.
InitPair ==
    /\ ic = IcIdle
    /\ CfIdle
    /\ ElIdle
    /\ LsIdle
    /\ PvIdle
    /\ cfg \in SyncOptions({CMP_CHANGED}, {CMP_CHANGED}, {"local", "blind"},
                           {NoKey, "k1"}, {NoKey, "k2"})
    /\ fs \in {t @@ (TmpRoot :> DirNode(0)) : t \in InitTrees(cfg.srckey, cfg.dstkey)}
    /\ snd = <<>>
    /\ rcv = RcvIdle
    /\ hist = [fs0 |-> fs, sent |-> {}]
    /\ BgIdle

NextPair ==
    \/ NextSync
    \/ BlindRecvDelete
    \/ BlindRecvDirectory
    \/ BlindRecvFile
    \/ BlindFlush
    \/ BlindStop

SpecPair == InitPair /\ [][NextPair]_vars

(***************************************************************************)
(* The change stream as FsProvider.logchanges sees it                      *)
(***************************************************************************)
\* FsProvider.logchanges: for item in sender: print it, yield it.  The log
\* is kept in hist.stream, in the order the records leave sendchanges.
LogChange ==
    /\ rcv.pc = "loop"
    /\ \E c \in NextChanges(fs, snd, cfg.srckind) :
         /\ fs' = c.f
         /\ snd' = c.g
         /\ hist' = [hist EXCEPT !.stream = Append(@, c.rec)]
    /\ UNCHANGED <<bgVars, cf, el, ls, pv, ic, cfg, rcv>>

\* The for loop of logchanges ends when sendchanges returns.
LogStop ==
    /\ rcv.pc = "loop"
    /\ NextChanges(fs, snd, cfg.srckind) = {}
    /\ fs' = SenderFinally(fs, snd)
    /\ snd' = <<>>
    /\ rcv' = [rcv EXCEPT !.pc = "done"]
    /\ UNCHANGED <<bgVars, cf, el, ls, pv, ic, cfg, hist>>

\* compare and src.sendchanges(delet, dcopy, fcopy) of one sync, for a local
\* and a remote source, with and without a source key; the records are
\* drawn from the generator one by one and logged.
InitStream ==
    /\ ic = IcIdle
    /\ CfIdle
    /\ ElIdle
    /\ LsIdle
    /\ PvIdle
    /\ cfg \in {c \in SyncOptions({CMP_CHANGED}, {CMP_CHANGED}, {"local", "blind"},
                                  {NoKey, "k1"}, {NoKey}) : c.dstkind = "local"}
    /\ fs \in {t @@ (TmpRoot :> DirNode(0)) : t \in InitTrees(cfg.srckey, NoKey)}
    /\ snd = <<>>
    /\ rcv = RcvIdle
    /\ hist = [fs0 |-> fs, sent |-> {}, stream |-> <<>>]
    /\ BgIdle

NextStream ==
    \/ Sync
    \/ LogChange
    \/ LogStop

SpecStream == InitStream /\ [][NextStream]_vars

(***************************************************************************)
(* A sync into a remote destination, with the records logged as they arrive *)
(* at BlindFsProvider.receivechanges and as the server's provider handles   *)
(* them, one log per request                                                *)
(***************************************************************************)
InitBlind ==
    /\ ic = IcIdle
    /\ CfIdle
    /\ ElIdle
    /\ LsIdle
    /\ PvIdle
    /\ cfg \in {c \in SyncOptions({CMP_CHANGED}, {CMP_CHANGED}, {"local", "blind"},
                                  {NoKey}, {NoKey, "k2"}) : c.dstkind = "blind"}
    /\ fs \in {t @@ (TmpRoot :> DirNode(0)) : t \in InitTrees(cfg.srckey, cfg.dstkey)}
    /\ snd = <<>>
    /\ rcv = RcvIdle
    /\ hist = [fs0 |-> fs, sent |-> {}, arrived |-> <<>>, handled |-> <<>>]
    /\ BgIdle

NextBlind ==
    \/ Sync
    \/ BlindRecvDelete
    \/ BlindRecvDirectory
    \/ BlindRecvFile
    \/ BlindFlush
    \/ BlindStop

SpecBlind == InitBlind /\ [][NextBlind]_vars

(***************************************************************************)
(* Properties of one sync                                                  *)
(***************************************************************************)
\* The plaintext relative paths below a root.
RelPaths(f, root) ==
    {SubSeq(q, Len(root) + 1, Len(q)) : q \in {x \in DOMAIN f : IsPrefix(root, x)}}

Exists(f, root, rel) == get_localpath(root, rel) \in DOMAIN f

\* The part of the file system below a root.
TreeAt(f, root) == [q \in {x \in DOMAIN f : IsPrefix(root, x)} |-> f[q]]

\* C1: after a sync with syncdelete=True has completed without error, a
\* plaintext relative path exists in the source tree if and only if it exists
\* in the destination tree.
C1_TreesAgree ==
    (rcv.pc = "done" /\ cfg.syncdelete)
        => \A rel \in RelPaths(fs, SrcRoot) \cup RelPaths(fs, DstRoot) :
               Exists(fs, SrcRoot, rel) <=> Exists(fs, DstRoot, rel)

\* C2: after a completed sync, the comparator is FALSE on the stat tuples of
\* every file present on both sides.
C2_SecondSyncCopiesNothing ==
    rcv.pc = "done"
        => \A rel \in RelPaths(fs, SrcRoot) :
               (isfile(fs, get_localpath(SrcRoot, rel)) /\ isfile(fs, get_localpath(DstRoot, rel)))
                   => ~_info_compare(getinfo(fs, SrcRoot, rel, FALSE),
                                     getinfo(fs, DstRoot, rel, FALSE), cfg)

\* A completed sync that has copied a file both sides held before.
C2_Witness ==
    /\ rcv.pc = "done"
    /\ \E rel \in RelPaths(fs, SrcRoot) :
         /\ isfile(fs, get_localpath(SrcRoot, rel))
         /\ isfile(fs, get_localpath(DstRoot, rel))
         /\ isfile(hist.fs0, get_localpath(DstRoot, rel))
         /\ _info_compare(getinfo(hist.fs0, SrcRoot, rel, FALSE),
                          getinfo(hist.fs0, DstRoot, rel, FALSE), cfg)
         /\ fs[get_localpath(DstRoot, rel)].data = fs[get_localpath(SrcRoot, rel)].data

\* C8: a sync never creates, deletes, renames or modifies anything in the
\* source provider's tree, whatever the pairing and the keys.
C8_SourceUntouched == TreeAt(fs, SrcRoot) = TreeAt(hist.fs0, SrcRoot)

\* C9: a sync with syncdelete=False deletes nothing: every path the
\* destination tree held before the sync is still there after it.
C9_NothingDeleted ==
    (rcv.pc = "done" /\ ~cfg.syncdelete)
        => \A rel \in RelPaths(hist.fs0, DstRoot) : Exists(fs, DstRoot, rel)

\* C10: a file body handed to the receiver in a FILE record owned by the
\* SENDER is never renamed, unlinked or written: it stays where and what it
\* was, whether the receiver succeeds or fails.
C10_SenderBodyImmutable ==
    \A p \in hist.sent : p \in DOMAIN fs /\ fs[p] = hist.fs0[p]

\* A receiver of either kind has finished, or failed, after it was handed a
\* SENDER-owned body.
C10_Witness ==
    /\ hist.sent # {}
    /\ rcv.pc \in {"done", "failed"}
    /\ \A p \in hist.sent : p \in DOMAIN fs /\ fs[p] = hist.fs0[p]

\* C11: a RECEIVER-owned temp body the remote receiver has noted in
\* ownedfiles is on disk as long as the request that uploads it has not
\* completed and the receiver has not unlinked it: no upload and no unlink
\* finds it already removed.
C11_OwnedBodyKept ==
    \A i \in DOMAIN rcv.batch.ownedfiles : isfile(fs, rcv.batch.ownedfiles[i])

\* C14: while LocalFsProvider.receivechanges handles a FILE record for a
\* path that held a file before the sync, and after the handler has failed,
\* the path holds a file with either the old or the new content.
C14_AtomicWrite ==
    LET dstpath == DstPath(rcv.rec.path) IN
    (/\ rcv.rec.op = "file"
     /\ rcv.pc \in {"remove", "rename", "utime", "failed"}
     /\ isfile(hist.fs0, dstpath))
        => /\ isfile(fs, dstpath)
           /\ fs[dstpath].data \in {hist.fs0[dstpath].data,
                                    hist.fs0[rcv.rec.fsource].data}

\* C15: a sync from a local source kept under key k1 into an empty local
\* destination kept under key k2 completes, and for every source file the
\* destination then holds a file under the k2 name of its plaintext path
\* whose body is the source's plaintext encrypted once, under k2.
C15_RecryptInTransit ==
    (/\ cfg.srckind = "local" /\ cfg.dstkind = "local"
     /\ cfg.srckey # NoKey /\ cfg.dstkey # NoKey
     /\ RelPaths(hist.fs0, DstRoot) = {<<>>}
     /\ rcv.pc \in {"done", "failed"})
        => /\ rcv.pc = "done"
           /\ \A q \in RelPaths(hist.fs0, SrcRoot) :
                LET from == get_localpath(SrcRoot, q)
                    to == get_localpath(DstRoot,
                              recrypt_path_items(cfg.srckey, cfg.dstkey, q))
                IN isfile(hist.fs0, from)
                      => /\ isfile(fs, to)
                         /\ fs[to].data = hist.fs0[from].data
                         /\ fs[to].enc = <<cfg.dstkey>>

RECURSIVE Flat(_)
Flat(ss) == IF ss = <<>> THEN <<>> ELSE Head(ss) \o Flat(Tail(ss))

\* The effect of record a has to be there before record b is handled: a
\* deletes the path b is for, or a makes a directory above b's path.
MustPrecede(a, b) ==
    \/ a.op = "delete" /\ b.op # "delete" /\ a.path = b.path
    \/ /\ a.op = "directory"
       /\ IsPrefix(a.path, b.path)
       /\ a.path # b.path

\* C13: over all requests of one BlindFsProvider.receivechanges call, the
\* server handles the records consistently with their arrival order: if a
\* DELETE arrived before a DIRECTORY or FILE record on the same path, or a
\* DIRECTORY record before a record beneath it, then whenever the later
\* record is handled the earlier one has been handled before it and is not
\* handled after it.
C13_HandledInArrivalOrder ==
    LET arr == hist.arrived
        done == Flat(hist.handled)
    IN \A i, j \in 1..Len(arr) :
         (i < j /\ MustPrecede(arr[i], arr[j]))
            => \A q \in 1..Len(done) :
                 done[q] = arr[j]
                    => /\ \E p \in 1..(q - 1) : done[p] = arr[i]
                       /\ \A p \in (q + 1)..Len(done) : done[p] # arr[i]

\* A receiver that has finished after two requests, the first with a
\* DIRECTORY record and the second with a record beneath that directory.
C13_Witness ==
    /\ rcv.pc = "done"
    /\ Len(hist.handled) >= 2
    /\ \E i \in 1..Len(hist.handled[1]), j \in 1..Len(hist.handled[2]) :
         MustPrecede(hist.handled[1][i], hist.handled[2][j])

\* Record j of the stream is for a path below the path of record i.
Beneath(st, i, j) ==
    /\ IsPrefix(st[i].path, st[j].path)
    /\ st[i].path # st[j].path

\* A FILE record of the fcopy list: no DIRECTORY record before it is for a
\* directory above it.
Loose(st, i) ==
    /\ st[i].op = "file"
    /\ \A k \in 1..(i - 1) : ~(st[k].op = "directory" /\ Beneath(st, k, i))

\* The source paths below the directory a DIRECTORY record is for.
ContentOf(f, d) ==
    {SubSeq(q, Len(SrcRoot) + 1, Len(q)) :
        q \in {x \in DOMAIN f : /\ IsPrefix(get_localpath(SrcRoot, d), x)
                                /\ x # get_localpath(SrcRoot, d)}}

\* C12: in the stream of sendchanges(delet, dcopy, fcopy) every DELETE
\* record comes before every DIRECTORY or FILE record; the records below the
\* directory of a DIRECTORY record follow it without a gap, and when the
\* stream has ended they are the whole recursive content of the directory;
\* no DIRECTORY record comes after a FILE record of the fcopy list.
C12_StreamOrder ==
    LET st == hist.stream
        n == Len(st)
    IN /\ \A i, j \in 1..n :
            (i < j /\ st[j].op = "delete") => st[i].op = "delete"
       /\ \A i, j \in 1..n :
            (i < j /\ st[i].op = "directory" /\ ~Beneath(st, i, j))
                => \A k \in (j + 1)..n : ~Beneath(st, i, k)
       /\ rcv.pc = "done"
            => \A i \in 1..n :
                 st[i].op = "directory"
                    => \A q \in ContentOf(hist.fs0, st[i].path) :
                         \E j \in (i + 1)..n : st[j].path = q
       /\ \A i, j \in 1..n :
            (i < j /\ Loose(st, i)) => st[j].op = "file"

\* A stream that has ended with a DIRECTORY record, the file in the
\* directory and a file of the fcopy list.
C12_Witness ==
    /\ rcv.pc = "done"
    /\ Len(hist.stream) = 3
    /\ hist.stream[1].op = "directory"
    /\ hist.stream[2].op = "file"
    /\ Beneath(hist.stream, 1, 2)
    /\ Loose(hist.stream, 3)

(***************************************************************************)
(* Continuous sync (bsync.py): the main thread's do_sync / do_bg_sync, the *)
(* FsEventReducer threads and the listeners that feed them                 *)
(***************************************************************************)
\* FsEventReducer.ttl
ttl == 2

\* The last second of the clock.
MaxTime == 4
\* How many times do_bg_sync calls do_sync.
MaxBgSyncs == 1

MainThread == "main"

\* An add_event whose search for a queued parent finds nothing.
NeverQueuedPrefix(events, relpath) == FALSE

\* A shorter path that is a prefix of relpath, or relpath itself, is queued:
\* the while loop over relpath[:idx], idx = 0 .. len(relpath).
HasQueuedPrefix(events, relpath) ==
    \E idx \in 0..Len(relpath) : SubSeq(relpath, 1, idx) \in events

\* An add_event that leaves the queued descendants of relpath in place.
nothing_to_reduce(events, relpath) == {}

\* to_reduce: the queued events that are longer than relpath and start with it.
to_reduce(events, relpath) ==
    {event \in events : Len(event) > Len(relpath) /\ IsPrefix(relpath, event)}

\* The body of add_event under self._lock.
add_event(events, relpath) ==
    IF HasQueuedPrefix(events, relpath) THEN events
    ELSE (events \cup {relpath}) \ to_reduce(events \cup {relpath}, relpath)

LockHeld == shared.sync_lock = MainThread

Started(r) == red[r].pc # "unstarted"

\* A listener thread calls reducer.add_event(relpath, typ).  A stopped reducer
\* ignores the call; otherwise the event is reduced into self.events and
\* _last_changed is set, all under self._lock.
AddEvent ==
    /\ bh.budget > 0
    /\ \E r \in DOMAIN red, relpath \in bh.paths :
         /\ Started(r)
         /\ red' = IF red[r].stop_requested THEN red
                   ELSE [red EXCEPT ![r].events = add_event(@, relpath),
                                    ![r]._last_changed = now]
         /\ bh' = [bh EXCEPT
                     !.budget = @ - 1,
                     !.added[r] = Append(@, [relpath |-> relpath, at |-> now,
                                             can_trigger |-> shared.can_trigger,
                                             taken |-> ~red[r].stop_requested,
                                             processing |-> red[r].pc \in {"process", "insync"}]),
                     !.during[r] = IF LockHeld /\ ~red[r].stop_requested
                                   THEN @ \cup {relpath} ELSE @]
    /\ UNCHANGED <<cf, el, ls, pv, ic, syncVars, now, main, shared, insync>>

\* A second passes.
Tick ==
    /\ now < MaxTime
    /\ now' = now + 1
    /\ UNCHANGED <<cf, el, ls, pv, ic, syncVars, main, shared, red, insync, bh>>

\* do_sync: with sync_lock
MainAcquire ==
    /\ main.pc = "do_sync"
    /\ shared.sync_lock = "free"
    /\ shared' = [shared EXCEPT !.sync_lock = MainThread]
    /\ main' = [main EXCEPT !.pc = "clear"]
    /\ bh' = [bh EXCEPT !.during = [r \in DOMAIN red |-> {}]]
    /\ UNCHANGED <<cf, el, ls, pv, ic, syncVars, now, red, insync>>

\* do_sync: options["syncdelete"] = "d" in mode; can_trigger.clear()
MainClear ==
    /\ main.pc = "clear"
    /\ shared' = [shared EXCEPT !.can_trigger = FALSE, !.syncdelete = main.syncdelete]
    /\ main' = [main EXCEPT !.pc = "sync"]
    /\ UNCHANGED <<cf, el, ls, pv, ic, syncVars, now, red, insync, bh>>

\* do_sync: syncdir.sync(src, dst, ...) is entered; for the second, reverse
\* sync of a symmetric mode options["syncdelete"] is set to False first.
MainSyncEnter ==
    /\ main.pc \in {"sync", "sync2"}
    /\ insync' = insync \cup {MainThread}
    /\ shared' = IF main.pc = "sync2" THEN [shared EXCEPT !.syncdelete = FALSE] ELSE shared
    /\ main' = [main EXCEPT !.pc = IF main.pc = "sync" THEN "insync" ELSE "insync2"]
    /\ UNCHANGED <<cf, el, ls, pv, ic, syncVars, now, red, bh>>

\* do_sync: syncdir.sync returns.
MainSyncExit ==
    /\ main.pc \in {"insync", "insync2"}
    /\ insync' = insync \ {MainThread}
    /\ main' = [main EXCEPT !.pc = IF main.pc = "insync" /\ main.symmetric
                                   THEN "sync2" ELSE "finally"]
    /\ UNCHANGED <<cf, el, ls, pv, ic, syncVars, now, shared, red, bh>>

\* A do_sync that sets can_trigger after the syncs, not in a finally clause.
MainFinallySkipped ==
    /\ main.pc \in {"finally", "raised"}
    /\ shared' = [shared EXCEPT !.can_trigger = (main.pc = "finally") \/ @]
    /\ main' = [main EXCEPT !.pc = IF main.pc = "finally" THEN "release" ELSE "unwind"]
    /\ UNCHANGED <<cf, el, ls, pv, ic, syncVars, now, red, insync, bh>>

\* do_sync: finally: can_trigger.set(), after the syncs have returned or
\* after one of them has raised.
MainFinally ==
    /\ main.pc \in {"finally", "raised"}
    /\ shared' = [shared EXCEPT !.can_trigger = TRUE]
    /\ main' = [main EXCEPT !.pc = IF main.pc = "finally" THEN "release" ELSE "unwind"]
    /\ UNCHANGED <<cf, el, ls, pv, ic, syncVars, now, red, insync, bh>>

\* do_sync: the with block is left and sync_lock released.  After the first
\* do_sync("SYNC") the reducers are created and started and the listeners
\* set up; then do_bg_sync runs.
\* When a sync has raised, the exception leaves do_sync: the
\* first do_sync("SYNC") ends the program before any reducer is created, a
\* later one leaves do_bg_sync and the finally clause asks every reducer to
\* stop.
MainRelease ==
    /\ main.pc \in {"release", "unwind"}
    /\ shared' = [shared EXCEPT !.sync_lock = "free"]
    /\ main' = [main EXCEPT !.pc = IF main.pc = "release" THEN "bg" ELSE "failed",
                            !.first = @ /\ main.pc = "unwind"]
    /\ red' = IF main.pc = "unwind"
              THEN [r \in DOMAIN red |->
                       [red[r] EXCEPT !.stop_requested = @ \/ ~main.first]]
              ELSE IF main.first THEN [r \in DOMAIN red |-> [red[r] EXCEPT !.pc = "top"]]
              ELSE red
    /\ UNCHANGED <<cf, el, ls, pv, ic, syncVars, now, insync, bh>>

\* do_bg_sync: elapsed has reached background_ttl and can_trigger is set:
\* do_sync("BGSYNC").
MainBgSync ==
    /\ main.pc = "bg"
    /\ main.bgsyncs < MaxBgSyncs
    /\ shared.can_trigger
    /\ main' = [main EXCEPT !.pc = "do_sync", !.bgsyncs = @ + 1]
    /\ UNCHANGED <<cf, el, ls, pv, ic, syncVars, now, shared, red, insync, bh>>

\* do_bg_sync is interrupted: the finally clause of the main program asks the
\* listeners and then every reducer to stop.
MainStop ==
    /\ main.pc = "bg"
    /\ main' = [main EXCEPT !.pc = "stopped"]
    /\ red' = [r \in DOMAIN red |-> [red[r] EXCEPT !.stop_requested = TRUE]]
    /\ UNCHANGED <<cf, el, ls, pv, ic, syncVars, now, shared, insync, bh>>

\* FsEventReducer.run: while not self.stop_requested.is_set()
ReducerTop ==
    \E r \in DOMAIN red :
      /\ red[r].pc = "top"
      /\ red' = [red EXCEPT ![r].pc = IF red[r].stop_requested THEN "exit" ELSE "check"]
      /\ UNCHANGED <<cf, el, ls, pv, ic, syncVars, now, main, shared, insync, bh>>

\* FsEventReducer.run: time.sleep(ttl / 10), then if self.can_trigger.is_set()
ReducerCheck ==
    \E r \in DOMAIN red :
      /\ red[r].pc = "check"
      /\ red' = [red EXCEPT ![r].pc = IF shared.can_trigger THEN "drain" ELSE "top"]
      /\ UNCHANGED <<cf, el, ls, pv, ic, syncVars, now, main, shared, insync, bh>>

\* FsEventReducer.run: with self._lock: if there are events and the last one
\* is older than ttl, take them all as to_process.
ReducerDrain ==
    \E r \in DOMAIN red :
      /\ red[r].pc = "drain"
      /\ IF red[r].events # {} /\ red[r]._last_changed > 0
              /\ red[r]._last_changed + ttl < now
         THEN /\ red' = [red EXCEPT ![r].pc = "process", ![r].to_process = red[r].events,
                                    ![r].events = {}, ![r]._last_changed = 0]
              /\ bh' = [bh EXCEPT !.drains[r] = @ + 1]
         ELSE /\ red' = [red EXCEPT ![r].pc = "top"]
              /\ bh' = bh
      /\ UNCHANGED <<cf, el, ls, pv, ic, syncVars, now, main, shared, insync>>

\* A processing loop that empties self.events when the batch is done, not
\* when it is taken.
ReducerProcessThenClear ==
    \E r \in DOMAIN red :
      /\ red[r].pc = "process"
      /\ IF red[r].to_process = {} \/ red[r].stop_requested
         THEN /\ red' = [red EXCEPT ![r].pc = "top", ![r].to_process = {},
                                    ![r].events = {}]
              /\ UNCHANGED <<shared, insync, bh>>
         ELSE \E event \in red[r].to_process :
              /\ red' = [red EXCEPT ![r].pc = "insync", ![r].to_process = @ \ {event}]
              /\ shared' = [shared EXCEPT !.syncdelete = red[r].syncdelete]
              /\ insync' = insync \cup {r}
              /\ bh' = [bh EXCEPT !.calls[r] = Append(@, event)]
      /\ UNCHANGED <<cf, el, ls, pv, ic, syncVars, now, main>>

\* FsEventReducer.run: for event in to_process: break if stop is requested,
\* else self.onevent(list(event)), which is onchange_any: it sets
\* options["syncdelete"] and enters syncdir.sync on drilled clones.
ReducerProcess ==
    \E r \in DOMAIN red :
      /\ red[r].pc = "process"
      /\ IF red[r].to_process = {} \/ red[r].stop_requested
         THEN /\ red' = [red EXCEPT ![r].pc = "top", ![r].to_process = {}]
              /\ UNCHANGED <<shared, insync, bh>>
         ELSE \E event \in red[r].to_process :
              /\ red' = [red EXCEPT ![r].pc = "insync", ![r].to_process = @ \ {event}]
              /\ shared' = [shared EXCEPT !.syncdelete = red[r].syncdelete]
              /\ insync' = insync \cup {r}
              /\ bh' = [bh EXCEPT !.calls[r] = Append(@, event)]
      /\ UNCHANGED <<cf, el, ls, pv, ic, syncVars, now, main>>

\* onchange_any: syncdir.sync returns.
ReducerSyncExit ==
    \E r \in DOMAIN red :
      /\ red[r].pc = "insync"
      /\ red' = [red EXCEPT ![r].pc = "process"]
      /\ insync' = insync \ {r}
      /\ UNCHANGED <<cf, el, ls, pv, ic, syncVars, now, main, shared, bh>>

NextBg ==
    \/ AddEvent
    \/ Tick
    \/ MainAcquire
    \/ MainClear
    \/ MainSyncEnter
    \/ MainSyncExit
    \/ MainFinally
    \/ MainRelease
    \/ MainBgSync
    \/ MainStop
    \/ ReducerTop
    \/ ReducerCheck
    \/ ReducerDrain
    \/ ReducerProcess
    \/ ReducerSyncExit

\* A reducer as FsEventReducer.__init__ leaves it, not yet started.
NewReducer(syncdelete) ==
    [events |-> {}, _last_changed |-> 0, to_process |-> {}, stop_requested |-> FALSE,
     pc |-> "unstarted", syncdelete |-> syncdelete]

\* bsync -m ad or -m sd with --bg-src-to-dst c and/or --bg-dst-to-src c: the
\* program is about to call do_sync("SYNC").
InitBgWith(reducers, paths, budget, modes) ==
    /\ ic = IcIdle
    /\ CfIdle
    /\ ElIdle
    /\ LsIdle
    /\ PvIdle
    /\ SyncIdle
    /\ now = 1
    /\ main \in [pc : {"do_sync"}, first : {TRUE}, bgsyncs : {0},
                 symmetric : modes, syncdelete : {TRUE}]
    /\ shared = [can_trigger |-> TRUE, sync_lock |-> "free", syncdelete |-> FALSE]
    /\ red = [r \in reducers |-> NewReducer(FALSE)]
    /\ insync = {}
    /\ bh = [budget |-> budget, paths |-> paths,
             added |-> [r \in reducers |-> <<>>],
             during |-> [r \in reducers |-> {}],
             calls |-> [r \in reducers |-> <<>>],
             drains |-> [r \in reducers |-> 0]]

\* The number of add_event calls the listeners make.
MaxEvents == 2

\* The events of the three-level scenario: a, a/b, a/b/c.
ScenarioPaths == {<<"a">>, <<"a", "b">>, <<"a", "b", "c">>}

\* --bg-src-to-dst and --bg-dst-to-src both given: two reducers.
InitBg == InitBgWith({"src_to_dst", "dst_to_src"}, {<<"a">>, <<"a", "b">>}, MaxEvents,
                     BOOLEAN)

SpecBg == InitBg /\ [][NextBg]_vars

\* --bg-src-to-dst only: one reducer, fed each event of the scenario once or
\* some of them more than once.
InitReducer ==
    InitBgWith({"src_to_dst"}, ScenarioPaths, Cardinality(ScenarioPaths), {FALSE})

SpecReducer == InitReducer /\ [][NextBg]_vars

(***************************************************************************)
(* Properties of continuous sync                                           *)
(***************************************************************************)
\* C4: at most one SyncDir.sync call is executing at any moment, counting
\* do_sync's calls and the event-driven calls of both reducers.
C4_OneSyncAtATime == Cardinality(insync) <= 1

Covered(events, relpath) == \E q \in events : IsPrefix(q, relpath)

\* C5: while do_sync holds sync_lock, every event added to a reducer since
\* the lock was taken is in that reducer's pending set, itself or through a
\* queued ancestor; none has been drained.
C5_EventsKeptDuringSync ==
    LockHeld => \A r \in DOMAIN red : \A e \in bh.during[r] : Covered(red[r].events, e)

Antichain(events) ==
    \A p \in events, q \in events : p # q => ~IsPrefix(p, q)

\* The relpaths of the add_event calls made on reducer r, all or only those
\* made before request_stop.
AddedPaths(r) == {bh.added[r][i].relpath : i \in 1..Len(bh.added[r])}
TakenPaths(r) ==
    {bh.added[r][i].relpath : i \in {j \in 1..Len(bh.added[r]) : bh.added[r][j].taken}}

AddedInOrder(r, paths) ==
    /\ Len(bh.added[r]) = Len(paths)
    /\ \A i \in 1..Len(paths) : bh.added[r][i].relpath = paths[i]

PathA == <<"a">>
PathAB == <<"a", "b">>
PathABC == <<"a", "b", "c">>

\* add_event(A) then add_event(A/B), or the reverse, and nothing else.
AddedAandAB(r) ==
    AddedInOrder(r, <<PathA, PathAB>>) \/ AddedInOrder(r, <<PathAB, PathA>>)

\* C6 as stated: after any sequence of add_event calls with no drain in
\* between, no queued path is a proper prefix of another, every added path is
\* queued or has a queued prefix, and A, A/B in either order leave exactly {A}.
C6_AsStated ==
    \A r \in DOMAIN red :
        bh.drains[r] = 0
            => /\ Antichain(red[r].events)
               /\ \A p \in AddedPaths(r) : Covered(red[r].events, p)
               /\ AddedAandAB(r) => red[r].events = {PathA}

\* C6, amended: the same for the add_event calls made before request_stop;
\* a stopped reducer ignores add_event.
C6_Subsumption ==
    \A r \in DOMAIN red :
        bh.drains[r] = 0
            => /\ Antichain(red[r].events)
               /\ \A p \in TakenPaths(r) : Covered(red[r].events, p)
               /\ (AddedAandAB(r) /\ TakenPaths(r) = AddedPaths(r))
                      => red[r].events = {PathA}

C6_Witness ==
    \E r \in DOMAIN red :
        /\ bh.drains[r] = 0
        /\ AddedInOrder(r, <<PathAB, PathA>>)
        /\ TakenPaths(r) = AddedPaths(r)
        /\ red[r].events = {PathA}

\* The three events of the scenario were added to r, each once, in some order,
\* within one TTL window and while can_trigger was set.
ThreeInOneWindow(r) ==
    LET a == bh.added[r] IN
    /\ Len(a) = 3
    /\ {a[i].relpath : i \in 1..3} = {PathA, PathAB, PathABC}
    /\ \A i \in 1..3 : a[i].can_trigger
    /\ a[3].at - a[1].at < ttl

\* The reducer has nothing pending and nothing in progress, or has exited.
Quiescent(r) ==
    \/ red[r].pc = "exit"
    \/ red[r].events = {} /\ red[r].to_process = {} /\ red[r].pc # "insync"

\* C7 as stated: events a, a/b, a/b/c added within one TTL window while
\* can_trigger is set: after quiescence the handler has been invoked exactly
\* once, with relpath a.
C7_AsStated ==
    \A r \in DOMAIN red :
        (ThreeInOneWindow(r) /\ Quiescent(r)) => bh.calls[r] = <<PathA>>

\* C7, amended: the same provided the reducer has not been asked to stop.
C7_OneDrilledSync ==
    \A r \in DOMAIN red :
        (ThreeInOneWindow(r) /\ Quiescent(r) /\ ~red[r].stop_requested)
            => bh.calls[r] = <<PathA>>

C7_Witness ==
    \E r \in DOMAIN red :
        /\ ThreeInOneWindow(r)
        /\ Quiescent(r)
        /\ ~red[r].stop_requested
        /\ bh.calls[r] = <<PathA>>

(***************************************************************************)
(* cryptfile.py on bytes.  A file and a key are sequences of small         *)
(* numbers; AES is a keyed permutation of blocks, chained as CBC chains    *)
(* it.  token_bytes is a draw the caller of an operator makes.             *)
(***************************************************************************)
\* The values of a byte, 0..255 in the source.
Byte == 0..15

NByte == Cardinality(Byte)

\* BS = algorithms.AES.block_size // 8, 16 in the source.
BS == 2

\* IV = b'\x00' * BS
IV == [i \in 1..BS |-> 0]

\* chunksize=64 * 1024 of encrypt_file, in blocks (4096 in the source).
EncChunkBlocks == 2

\* CHUNK_SIZE = 128 * BS
ChunkBlocks == 1
CHUNK_SIZE == ChunkBlocks * BS

\* The keys hashkey returns, as numbers.
MaxKey == 2
HashedKeys == 1..MaxKey

Min(a, b) == IF a < b THEN a ELSE b

RECURSIVE Xor(_, _)
Xor(a, b) ==
    IF a = 0 /\ b = 0 THEN 0
    ELSE ((a + b) % 2) + 2 * Xor(a \div 2, b \div 2)

XorBlock(x, y) == [i \in 1..BS |-> Xor(x[i], y[i])]

\* algorithms.AES(key) on one block: the bytes are moved round by the key
\* and each is put through a bijection of Byte that depends on the key and
\* the position.
AES_encrypt(key, block) ==
    [i \in 1..BS |-> (5 * block[((i + key - 1) % BS) + 1] + key + i) % NByte]

\* The block AES_encrypt(key, .) maps to the given block (13 * 5 = 1 mod 16).
AES_decrypt(key, block) ==
    [j \in 1..BS |->
        LET i == ((j - 1 + (BS - 1) * key) % BS) + 1
        IN (13 * (block[i] + 4 * NByte - key - i)) % NByte]

\* Cipher(algorithms.AES(key), modes.CBC(iv)).encryptor() / .decryptor():
\* the key, the last ciphertext block and the bytes not yet a whole block.
Cipher(key, iv) == [key |-> key, prev |-> iv, buf |-> <<>>]

\* encryptor.update(data): the ciphertext of the whole blocks.
RECURSIVE encryptor_update(_, _)
encryptor_update(ctx, data) ==
    LET all == ctx.buf \o data IN
    IF Len(all) < BS THEN [ctx |-> [ctx EXCEPT !.buf = all], out |-> <<>>]
    ELSE LET c == AES_encrypt(ctx.key, XorBlock(SubSeq(all, 1, BS), ctx.prev))
             r == encryptor_update([ctx EXCEPT !.prev = c, !.buf = <<>>],
                                   SubSeq(all, BS + 1, Len(all)))
         IN [ctx |-> r.ctx, out |-> c \o r.out]

\* decryptor.update(data): the plaintext of the whole blocks.
RECURSIVE decryptor_update(_, _)
decryptor_update(ctx, data) ==
    LET all == ctx.buf \o data IN
    IF Len(all) < BS THEN [ctx |-> [ctx EXCEPT !.buf = all], out |-> <<>>]
    ELSE LET c == SubSeq(all, 1, BS)
             q == XorBlock(AES_decrypt(ctx.key, c), ctx.prev)
             r == decryptor_update([ctx EXCEPT !.prev = c, !.buf = <<>>],
                                   SubSeq(all, BS + 1, Len(all)))
         IN [ctx |-> r.ctx, out |-> q \o r.out]

\* finalize(): b"" for CBC; raises ValueError when bytes are left over.
finalize(ctx) == [ok |-> ctx.buf = <<>>, out |-> <<>>]

\* struct.calcsize('Q'), 8 in the source.
calcsize_Q == 2

RECURSIVE Power(_, _)
Power(b, e) == IF e = 0 THEN 1 ELSE b * Power(b, e - 1)

\* struct.pack('<Q', n): little-endian.
pack_Q(n) == [i \in 1..calcsize_Q |-> (n \div Power(NByte, i - 1)) % NByte]

RECURSIVE unpack_Q(_)
unpack_Q(b) == IF b = <<>> THEN 0 ELSE Head(b) + NByte * unpack_Q(Tail(b))

\* A truncate that leaves the file as it is.
truncate_skipped(b, size) == b

\* outfile.truncate(size): cut, or extended with zero bytes.
truncate(b, size) ==
    IF size <= Len(b) THEN SubSeq(b, 1, size)
    ELSE b \o [i \in 1..(size - Len(b)) |-> 0]

\* The while loop of encrypt_file: read a chunk, fill a short chunk up to
\* whole blocks with token_bytes, write encryptor.update(chunk).
RECURSIVE EncryptChunks(_, _, _)
EncryptChunks(ctx, rest, rnd) ==
    IF rest = <<>> THEN [ctx |-> ctx, out |-> <<>>]
    ELSE LET lc == Min(Len(rest), EncChunkBlocks * BS)
             read == SubSeq(rest, 1, lc)
             chunk == IF lc % BS # 0
                      THEN read \o SubSeq(rnd, 1, BS - (lc % BS))
                      ELSE read
             u == encryptor_update(ctx, chunk)
             r == EncryptChunks(u.ctx, SubSeq(rest, lc + 1, Len(rest)), rnd)
         IN [ctx |-> r.ctx, out |-> u.out \o r.out]

\* cryptfile.encrypt_file(hashed_key, in_filename, out_filename): the bytes
\* of the output file.  iv and rnd are what token_bytes returns.
cryptfile_encrypt_file(hashed_key, infile, iv, rnd) ==
    LET total == Len(infile)
        e == EncryptChunks(Cipher(hashed_key, iv), infile, rnd)
        fin == finalize(e.ctx)
    IN [ok |-> fin.ok, data |-> pack_Q(total) \o iv \o e.out \o fin.out]

\* The while loop of decrypt_file: read CHUNK_SIZE bytes, write
\* decryptor.update(chunk).
RECURSIVE DecryptChunks(_, _)
DecryptChunks(ctx, rest) ==
    IF rest = <<>> THEN [ctx |-> ctx, out |-> <<>>]
    ELSE LET lc == Min(Len(rest), CHUNK_SIZE)
             u == decryptor_update(ctx, SubSeq(rest, 1, lc))
             r == DecryptChunks(u.ctx, SubSeq(rest, lc + 1, Len(rest)))
         IN [ctx |-> r.ctx, out |-> u.out \o r.out]

\* cryptfile.decrypt_file(hashed_key, in_filename, out_filename): the bytes
\* of the output file; IOError when fewer bytes than origsize come out.
cryptfile_decrypt_file(hashed_key, infile) ==
    LET origsize == unpack_Q(SubSeq(infile, 1, calcsize_Q))
        iv == SubSeq(infile, calcsize_Q + 1, calcsize_Q + BS)
        d == DecryptChunks(Cipher(hashed_key, iv),
                           SubSeq(infile, calcsize_Q + BS + 1, Len(infile)))
        fin == finalize(d.ctx)
        written == d.out \o fin.out
    IN IF ~fin.ok \/ Len(written) < origsize
       THEN [ok |-> FALSE, data |-> written]
       ELSE [ok |-> TRUE, data |-> truncate(written, origsize)]

\* The while loop of recrypt_file:
\* outfile.write(encryptor.update(decryptor.update(chunk)))
RECURSIVE RecryptChunks(_, _, _)
RecryptChunks(dctx, ectx, rest) ==
    IF rest = <<>> THEN [dctx |-> dctx, ectx |-> ectx, out |-> <<>>]
    ELSE LET lc == Min(Len(rest), CHUNK_SIZE)
             d == decryptor_update(dctx, SubSeq(rest, 1, lc))
             e == encryptor_update(ectx, d.out)
             r == RecryptChunks(d.ctx, e.ctx, SubSeq(rest, lc + 1, Len(rest)))
         IN [dctx |-> r.dctx, ectx |-> r.ectx, out |-> e.out \o r.out]

\* A recrypt_file that copies its input.
recrypt_by_copy(decrypt_hkey, encrypt_hkey, infile, iv2) ==
    [ok |-> TRUE, data |-> infile]

\* cryptfile.recrypt_file(decrypt_hkey, encrypt_hkey, in_filename,
\* out_filename): the bytes of the output file.  iv2 is what token_bytes
\* returns.  progress counts the bytes read and written after the loop and
\* has to end as the size of the input file.
cryptfile_recrypt_file(decrypt_hkey, encrypt_hkey, infile, iv2) ==
    LET total == Len(infile)
        origsize == unpack_Q(SubSeq(infile, 1, calcsize_Q))
        iv1 == SubSeq(infile, calcsize_Q + 1, calcsize_Q + BS)
        rest == SubSeq(infile, calcsize_Q + BS + 1, Len(infile))
        r == RecryptChunks(Cipher(decrypt_hkey, iv1), Cipher(encrypt_hkey, iv2), rest)
        dfin == finalize(r.dctx)
        last == encryptor_update(r.ectx, dfin.out)
        efin == finalize(last.ctx)
        progress == calcsize_Q + BS + Len(rest) + Len(last.out) + Len(efin.out)
    IN [ok |-> dfin.ok /\ efin.ok /\ progress = total,
        data |-> pack_Q(origsize) \o iv2 \o r.out \o last.out \o efin.out]

\* The longest file of the model.
MaxLen == 5

\* The files: every length up to MaxLen, so lengths that are no multiple
\* of BS and lengths of several chunks.
Files == UNION {[1..n -> {1, 10}] : n \in 0..MaxLen}

\* What token_bytes(n) may return: a sample of the byte strings of length n.
token_bytes(n) == [1..n -> {3, 12}]

\* The number of bytes encrypt_file adds to the last chunk.
FillLen(infile) == IF Len(infile) % BS = 0 THEN 0 ELSE BS - (Len(infile) % BS)

NoData == [ok |-> FALSE, data |-> <<>>]

\* test_encrypt_file and test_recrypt_file: a file is encrypted under key1,
\* then either decrypted, or recrypted to key2 and decrypted under key2.
InitCryptFile ==
    /\ cf \in [pc : {"new"}, key1 : HashedKeys, key2 : HashedKeys, F : Files,
               enc : {NoData}, enc2 : {NoData}, dec : {NoData}]
    /\ ic = IcIdle
    /\ SyncIdle
    /\ BgIdle
    /\ ElIdle
    /\ LsIdle
    /\ PvIdle

EncryptFile ==
    /\ cf.pc = "new"
    /\ \E iv \in token_bytes(BS), rnd \in token_bytes(FillLen(cf.F)) :
         cf' = [cf EXCEPT !.pc = "encrypted",
                          !.enc = cryptfile_encrypt_file(cf.key1, cf.F, iv, rnd)]
    /\ UNCHANGED <<bgVars, syncVars, ic, el, ls, pv>>

DecryptFile ==
    /\ cf.pc = "encrypted"
    /\ cf.enc.ok
    /\ cf' = [cf EXCEPT !.pc = "decrypted",
                        !.dec = cryptfile_decrypt_file(cf.key1, cf.enc.data)]
    /\ UNCHANGED <<bgVars, syncVars, ic, el, ls, pv>>

RecryptFile ==
    /\ cf.pc = "encrypted"
    /\ cf.enc.ok
    /\ \E iv2 \in token_bytes(BS) :
         cf' = [cf EXCEPT !.pc = "recrypted",
                          !.enc2 = cryptfile_recrypt_file(cf.key1, cf.key2,
                                                          cf.enc.data, iv2)]
    /\ UNCHANGED <<bgVars, syncVars, ic, el, ls, pv>>

DecryptRecrypted ==
    /\ cf.pc = "recrypted"
    /\ cf.enc2.ok
    /\ cf' = [cf EXCEPT !.pc = "redecrypted",
                        !.dec = cryptfile_decrypt_file(cf.key2, cf.enc2.data)]
    /\ UNCHANGED <<bgVars, syncVars, ic, el, ls, pv>>

NextCryptFile ==
    \/ EncryptFile
    \/ DecryptFile
    \/ RecryptFile
    \/ DecryptRecrypted

SpecCryptFile == InitCryptFile /\ [][NextCryptFile]_vars

\* C16: whatever the key and the file, encrypt_file succeeds and decrypt_file
\* under the same key gives back the file, byte for byte and of the same
\* length.
C16_FileRoundTrip ==
    /\ cf.pc # "new" => cf.enc.ok
    /\ cf.pc = "decrypted" => (cf.dec.ok /\ cf.dec.data = cf.F)

\* A file of several chunks whose length is no multiple of the block size
\* has been encrypted and decrypted.
C16_Witness ==
    /\ cf.pc = "decrypted"
    /\ Len(cf.F) > EncChunkBlocks * BS
    /\ Len(cf.F) % BS # 0
    /\ cf.dec.data = cf.F

\* C17: whatever the two keys and the file, recrypt_file of the encrypted
\* file succeeds, its output starts with the same original-size field, and
\* decrypt_file under the second key gives back the file.
C17_RecryptRoundTrip ==
    /\ cf.pc \in {"recrypted", "redecrypted"}
          => /\ cf.enc2.ok
             /\ SubSeq(cf.enc2.data, 1, calcsize_Q) = SubSeq(cf.enc.data, 1, calcsize_Q)
    /\ cf.pc = "redecrypted" => (cf.dec.ok /\ cf.dec.data = cf.F)

\* A file whose length is no multiple of the block size has been recrypted
\* from one key to another and decrypted under the second.
C17_Witness ==
    /\ cf.pc = "redecrypted"
    /\ cf.key1 # cf.key2
    /\ Len(cf.F) % BS # 0
    /\ Len(cf.F) > CHUNK_SIZE
    /\ cf.dec.data = cf.F

(***************************************************************************)
(* cryptfile.encrypt_filename and decrypt_filename.  A filename is a       *)
(* sequence of code points, its UTF-8 form a sequence of bytes, the        *)
(* encrypted name a sequence of characters.                                *)
(***************************************************************************)
\* str.encode("UTF-8"): a code point below 8 is one byte 0xxx, a higher one
\* a lead byte 110x and a continuation byte 10xx.
RECURSIVE utf8_encode(_)
utf8_encode(text) ==
    IF text = <<>> THEN <<>>
    ELSE LET c == Head(text)
         IN (IF c < 8 THEN <<c>>
             ELSE <<12 + ((c - 8) \div 4), 8 + ((c - 8) % 4)>>)
            \o utf8_encode(Tail(text))

\* bytes.decode("UTF-8"): UnicodeDecodeError on bytes that are no UTF-8.
RECURSIVE utf8_decode(_)
utf8_decode(b) ==
    IF b = <<>> THEN [ok |-> TRUE, text |-> <<>>]
    ELSE IF Head(b) < 8
         THEN LET r == utf8_decode(Tail(b))
              IN [ok |-> r.ok, text |-> <<Head(b)>> \o r.text]
    ELSE IF Head(b) \in {12, 13} /\ Len(b) >= 2 /\ b[2] \in 8..11
         THEN LET r == utf8_decode(SubSeq(b, 3, Len(b)))
              IN [ok |-> r.ok,
                  text |-> <<8 + 4 * (Head(b) - 12) + (b[2] - 8)>> \o r.text]
    ELSE [ok |-> FALSE, text |-> <<>>]

\* padding.PKCS7(256): blocks of two AES blocks.
PadBlock == 2 * BS

\* pad(b): n bytes of value n, 1 <= n <= PadBlock, up to whole blocks.
pad(b) ==
    LET n == PadBlock - (Len(b) % PadBlock)
    IN b \o [i \in 1..n |-> n]

\* An unpad that leaves the bytes as they are.
unpad_skipped(b) == [ok |-> TRUE, data |-> b]

\* unpad(b): ValueError unless b is whole blocks that end in n bytes of
\* value n.
unpad(b) ==
    IF b = <<>> \/ Len(b) % PadBlock # 0 THEN [ok |-> FALSE, data |-> <<>>]
    ELSE LET n == b[Len(b)]
         IN IF /\ n \in 1..PadBlock
               /\ \A i \in (Len(b) - n + 1)..Len(b) : b[i] = n
            THEN [ok |-> TRUE, data |-> SubSeq(b, 1, Len(b) - n)]
            ELSE [ok |-> FALSE, data |-> <<>>]

\* The base64 alphabet, 8 digits of 3 bits for the 64 digits of 6 bits: a
\* group of 3 bytes makes 4 digits.  The last two are '+' and '/'.
B64Alphabet == <<"A", "B", "C", "D", "E", "F", "+", "/">>

NDigit == Len(B64Alphabet)

\* altchars=b"+-"
altchars == <<"+", "-">>

\* bytes.translate(bytes.maketrans(from, to))
translate(str, from, to) ==
    [i \in 1..Len(str) |->
        IF \E j \in 1..Len(from) : from[j] = str[i]
        THEN to[CHOOSE j \in 1..Len(from) : from[j] = str[i]]
        ELSE str[i]]

\* binascii.b2a_base64
RECURSIVE b2a_base64(_)
b2a_base64(b) ==
    LET ch(d) == B64Alphabet[d + 1] IN
    IF b = <<>> THEN <<>>
    ELSE IF Len(b) = 1
         THEN LET v == b[1] * 4
              IN <<ch(v \div NDigit), ch(v % NDigit), "=", "=">>
    ELSE IF Len(b) = 2
         THEN LET v == (b[1] * NByte + b[2]) * 2
              IN <<ch(v \div (NDigit * NDigit)), ch((v \div NDigit) % NDigit),
                   ch(v % NDigit), "=">>
    ELSE LET v == (b[1] * NByte + b[2]) * NByte + b[3]
         IN <<ch(v \div (NDigit * NDigit * NDigit)),
              ch((v \div (NDigit * NDigit)) % NDigit),
              ch((v \div NDigit) % NDigit), ch(v % NDigit)>>
            \o b2a_base64(SubSeq(b, 4, Len(b)))

\* The digits of the characters of the alphabet in str, up to the padding.
RECURSIVE B64Digits(_)
B64Digits(str) ==
    IF str = <<>> \/ Head(str) = "=" THEN <<>>
    ELSE IF \E d \in 1..NDigit : B64Alphabet[d] = Head(str)
         THEN <<(CHOOSE d \in 1..NDigit : B64Alphabet[d] = Head(str)) - 1>>
              \o B64Digits(Tail(str))
    ELSE B64Digits(Tail(str))

\* The bytes of a sequence of digits; binascii.Error on a single left-over
\* digit.
RECURSIVE B64Bytes(_)
B64Bytes(d) ==
    IF d = <<>> THEN [ok |-> TRUE, data |-> <<>>]
    ELSE IF Len(d) = 1 THEN [ok |-> FALSE, data |-> <<>>]
    ELSE IF Len(d) = 2
         THEN [ok |-> TRUE, data |-> <<(d[1] * NDigit + d[2]) \div 4>>]
    ELSE IF Len(d) = 3
         THEN LET v == ((d[1] * NDigit + d[2]) * NDigit + d[3]) \div 2
              IN [ok |-> TRUE, data |-> <<v \div NByte, v % NByte>>]
    ELSE LET v == ((d[1] * NDigit + d[2]) * NDigit + d[3]) * NDigit + d[4]
             r == B64Bytes(SubSeq(d, 5, Len(d)))
         IN [ok |-> r.ok,
             data |-> <<v \div (NByte * NByte), (v \div NByte) % NByte, v % NByte>>
                      \o r.data]

\* base64.b64encode(s, altchars)
b64encode(b, alt) == translate(b2a_base64(b), <<"+", "/">>, alt)

\* base64.b64decode(s, altchars)
b64decode(str, alt) == B64Bytes(B64Digits(translate(str, alt, <<"+", "/">>)))

\* cryptfile.encrypt_filename(hashed_key, filename)
cryptfile_encrypt_filename(hashed_key, filename) ==
    LET padded_data == pad(utf8_encode(filename))
        u == encryptor_update(Cipher(hashed_key, IV), padded_data)
        ct == u.out \o finalize(u.ctx).out
    IN b64encode(ct, altchars)

\* cryptfile.decrypt_filename(hashed_key, enc_filename)
cryptfile_decrypt_filename(hashed_key, enc_filename) ==
    LET ct == b64decode(enc_filename, altchars)
        u == decryptor_update(Cipher(hashed_key, IV), ct.data)
        plain == unpad(u.out)
        name == utf8_decode(plain.data)
    IN IF ct.ok /\ plain.ok /\ name.ok
       THEN [ok |-> TRUE, text |-> name.text]
       ELSE [ok |-> FALSE, text |-> <<>>]

\* The longest filename of the model, in code points.
MaxNameLen == 3

\* Filenames of one-byte and two-byte code points, the empty name included.
Filenames == UNION {[1..n -> {1, 6, 9}] : n \in 0..MaxNameLen}

NoName == [ok |-> FALSE, text |-> <<>>]

\* test_encrypt_filename: the name is encrypted twice and both results are
\* decrypted.
InitCryptName ==
    /\ cf \in [pc : {"new"}, key : HashedKeys, filename : Filenames,
               enc_name_1 : {<<>>}, enc_name_2 : {<<>>},
               dec_name_1 : {NoName}, dec_name_2 : {NoName}]
    /\ ic = IcIdle
    /\ SyncIdle
    /\ BgIdle
    /\ ElIdle
    /\ LsIdle
    /\ PvIdle

EncryptFilenameOnce ==
    /\ cf.pc = "new"
    /\ cf' = [cf EXCEPT !.pc = "one",
                        !.enc_name_1 = cryptfile_encrypt_filename(cf.key, cf.filename)]
    /\ UNCHANGED <<bgVars, syncVars, ic, el, ls, pv>>

EncryptFilenameAgain ==
    /\ cf.pc = "one"
    /\ cf' = [cf EXCEPT !.pc = "two",
                        !.enc_name_2 = cryptfile_encrypt_filename(cf.key, cf.filename)]
    /\ UNCHANGED <<bgVars, syncVars, ic, el, ls, pv>>

DecryptFilenames ==
    /\ cf.pc = "two"
    /\ cf' = [cf EXCEPT !.pc = "decrypted",
                        !.dec_name_1 = cryptfile_decrypt_filename(cf.key, cf.enc_name_1),
                        !.dec_name_2 = cryptfile_decrypt_filename(cf.key, cf.enc_name_2)]
    /\ UNCHANGED <<bgVars, syncVars, ic, el, ls, pv>>

NextCryptName ==
    \/ EncryptFilenameOnce
    \/ EncryptFilenameAgain
    \/ DecryptFilenames

SpecCryptName == InitCryptName /\ [][NextCryptName]_vars

\* C18: whatever the key and the filename, two calls of encrypt_filename
\* return the same string, and decrypt_filename under the same key returns
\* the filename.
C18_FilenameRoundTrip ==
    /\ cf.pc \in {"two", "decrypted"} => cf.enc_name_1 = cf.enc_name_2
    /\ cf.pc = "decrypted"
          => /\ cf.dec_name_1.ok
             /\ cf.dec_name_1.text = cf.filename
             /\ cf.dec_name_2 = cf.dec_name_1

\* A name with a two-byte code point whose UTF-8 form fills more than one
\* padding block has been encrypted twice and decrypted.
C18_Witness ==
    /\ cf.pc = "decrypted"
    /\ Len(utf8_encode(cf.filename)) > PadBlock
    /\ \E i \in 1..Len(cf.filename) : cf.filename[i] >= 8
    /\ cf.dec_name_1.text = cf.filename

(***************************************************************************)
(* server.py: EventListener and the long poll of MainHandler.  The server  *)
(* is one tornado IOLoop: a request handler and a timer callback run to    *)
(* their end before anything else runs.  now is time.time(), counted in    *)
(* units of poll_granularity.                                              *)
(***************************************************************************)
\* cls.poll_granularity = 0.1: the unit of time of this part.
poll_granularity == 1

\* cls.poll_ttl = 1.0, in units of poll_granularity (10 in the source).
poll_ttl == 3

\* The time the clock of the model stops at.
MaxClock == 8

\* The longest time one receivechanges request keeps the IOLoop.
MaxBusy == 4

\* The number of notifications of one run.
MaxNotify == 2

\* The uid of the one observer (uuid.uuid4()) and the value of
\* BlindFsListener.uid before listenchanges has answered.
ObserverUid == "u1"
NoUid == "none"

\* Roots an observer registers and event roots the server notifies, as
\* strings of characters.
ObserverRoots == {<<>>, <<"a">>}
EventRoots == {<<"a", "/", "x">>, <<"b", "/", "x">>}

\* eventRoot.startswith(rec["root"])
startswith(str, prefix) ==
    /\ Len(prefix) <= Len(str)
    /\ SubSeq(str, 1, Len(prefix)) = prefix

\* EventListener.addObserver(root)
addObserver(listeners, uid, root, t) ==
    (uid :> [expires |-> t + 2 * poll_ttl, root |-> root, events |-> <<>>])
        @@ listeners

\* EventListener.notify(eventRoot, eventType, eventUid): expired listeners
\* are removed, the others get the event if it starts with their root.
notify(listeners, event, t) ==
    LET kept == {uid \in DOMAIN listeners : ~(listeners[uid].expires < t)}
    IN [uid \in kept |->
          IF startswith(event.eventRoot, listeners[uid].root)
          THEN [listeners[uid] EXCEPT !.events = Append(@, event)]
          ELSE listeners[uid]]

\* EventListener.getEvents(uid): ok is FALSE when AbortRequest(404) is
\* raised.
getEvents(listeners, uid, t) ==
    IF uid \notin DOMAIN listeners
    THEN [ok |-> FALSE, listeners |-> listeners, result |-> <<>>]
    ELSE IF t > listeners[uid].expires + 2 * poll_ttl
    THEN [ok |-> FALSE,
          listeners |-> [u \in DOMAIN listeners \ {uid} |-> listeners[u]],
          result |-> <<>>]
    ELSE [ok |-> TRUE,
          listeners |-> [listeners EXCEPT ![uid].expires = t + poll_ttl,
                                          ![uid].events = <<>>],
          result |-> listeners[uid].events]

NoPoll == [state |-> "idle", started |-> 0, at |-> 0, result |-> <<>>,
           replied |-> 0, buffered |-> FALSE, expired |-> FALSE]

\* The serial numbers of the events in a list.
Serials(events) == {events[i].n : i \in 1..Len(events)}

\* MainHandler._pollChanges(uid, started) at time t.  In the request
\* handler AbortRequest is caught by post() and answered with the error; in
\* a timer callback nothing catches it and the request is never finished.
_pollChanges(e, started, t, callback) ==
    LET g == getEvents(e.listeners, e.uid, t) IN
    IF ~g.ok
    THEN [e EXCEPT !.listeners = g.listeners,
                   !.poll.state = IF callback THEN "abandoned" ELSE "error",
                   !.poll.replied = t]
    ELSE IF g.result # <<>>
    THEN [e EXCEPT !.listeners = g.listeners,
                   !.poll.state = "replied",
                   !.poll.result = g.result,
                   !.poll.replied = t,
                   !.returned = @ \cup Serials(g.result)]
    ELSE IF t + poll_granularity - started > poll_ttl
    THEN [e EXCEPT !.listeners = g.listeners,
                   !.poll.state = "replied",
                   !.poll.result = <<>>,
                   !.poll.replied = t,
                   !.empty = [set |-> TRUE, started |-> started, replied |-> t]]
    ELSE [e EXCEPT !.listeners = g.listeners,
                   !.poll.state = "waiting",
                   !.poll.at = t + poll_granularity]

serverIdleVars == <<syncVars, ic, cf, ls, pv, main, shared, red, insync, bh>>

\* BlindFsListener.run: self.uid = self.client("listenchanges", root=...)
ListenChanges ==
    /\ el.uid = NoUid
    /\ \E root \in ObserverRoots :
         el' = [el EXCEPT !.uid = ObserverUid,
                          !.root = root,
                          !.listeners = addObserver(@, ObserverUid, root, now)]
    /\ UNCHANGED <<now, serverIdleVars>>

\* BlindFsListener.run: changes = self.client("pollchanges", uid=self.uid),
\* handled by post(): self._pollChanges(params["uid"], time.time())
PollChanges ==
    /\ el.uid # NoUid
    /\ el.poll.state \in {"idle", "replied"}
    /\ el' = _pollChanges(
                [el EXCEPT !.poll = [NoPoll EXCEPT
                                        !.started = now,
                                        !.buffered =
                                            /\ el.uid \in DOMAIN el.listeners
                                            /\ el.listeners[el.uid].events # <<>>,
                                        !.expired =
                                            /\ el.uid \in DOMAIN el.listeners
                                            /\ el.listeners[el.uid].expires < now],
                           !.empty.set = FALSE],
                now, now, FALSE)
    /\ UNCHANGED <<now, serverIdleVars>>

\* The callback of IOLoop.add_timeout(time.time() + poll_granularity, fnc)
PollTimer ==
    /\ el.poll.state = "waiting"
    /\ now >= el.poll.at
    /\ el' = _pollChanges(el, el.poll.started, now, TRUE)
    /\ UNCHANGED <<now, serverIdleVars>>

\* A receivechanges request of another client: the handler keeps the IOLoop
\* for busy units of time while it writes the files, then notifies.  The
\* event is owed to the observer if it is posted after the observer's poll
\* has returned an empty list, before its next poll, within 2 * poll_ttl of
\* the start of that poll, for a path below the observer's root.
ReceiveChangesNotify ==
    /\ el.posted < MaxNotify
    /\ \E busy \in 0..MaxBusy, eventRoot \in EventRoots :
         LET t == now + busy
             event == [eventRoot |-> eventRoot, eventType |-> "file",
                       eventUid |-> "u2", n |-> el.posted + 1]
             owed == /\ el.empty.set
                     /\ el.poll.state = "replied"
                     /\ t <= el.empty.started + 2 * poll_ttl
                     /\ startswith(eventRoot, el.root)
         IN /\ t <= MaxClock
            /\ now' = t
            /\ el' = [el EXCEPT !.listeners = notify(@, event, t),
                                !.posted = @ + 1,
                                !.notified = t,
                                !.owed = IF owed THEN @ \cup {event.n} ELSE @]
    /\ UNCHANGED serverIdleVars

\* Time passes with the IOLoop idle: a timer that is due runs first.
ServerTick ==
    /\ now < MaxClock
    /\ ~(el.poll.state = "waiting" /\ now >= el.poll.at)
    /\ now' = now + 1
    /\ UNCHANGED <<el, serverIdleVars>>

InitServer ==
    /\ el = [listeners |-> <<>>, uid |-> NoUid, root |-> <<>>, poll |-> NoPoll,
             posted |-> 0, notified |-> 0, owed |-> {}, returned |-> {},
             empty |-> [set |-> FALSE, started |-> 0, replied |-> 0]]
    /\ now = 0
    /\ main = <<>>
    /\ shared = <<>>
    /\ red = <<>>
    /\ insync = {}
    /\ bh = <<>>
    /\ ic = IcIdle
    /\ SyncIdle
    /\ CfIdle
    /\ LsIdle
    /\ PvIdle

NextServer ==
    \/ ListenChanges
    \/ PollChanges
    \/ PollTimer
    \/ ReceiveChangesNotify
    \/ ServerTick

SpecServer == InitServer /\ [][NextServer]_vars

\* C19: a pollchanges request for a registered observer always gets a
\* reply: at once with the buffered events when there are some, otherwise
\* with an empty list no later than poll_ttl after the request started.  No
\* request is left without a reply, a request still waiting is not older than
\* poll_ttl, an answer comes no later than poll_ttl after the start, and at
\* the start itself when events were buffered.
C19_PollAlwaysAnswered ==
    /\ el.poll.state # "abandoned"
    /\ el.poll.state = "waiting" => now <= el.poll.started + poll_ttl
    /\ el.poll.state = "replied" =>
          /\ el.poll.replied <= el.poll.started + poll_ttl
          /\ el.poll.buffered => el.poll.replied = el.poll.started

\* The two parts of C19 on their own: a request is never left without a
\* reply; a reply is never later than poll_ttl.
C19_NeverAbandoned == el.poll.state # "abandoned"
C19_NeverLate ==
    el.poll.state = "replied" => el.poll.replied <= el.poll.started + poll_ttl

\* The events buffered for the observer.
Buffered ==
    IF el.uid \in DOMAIN el.listeners
    THEN Serials(el.listeners[el.uid].events)
    ELSE {}

\* C20: after a pollchanges call of an observer has returned an empty list, a
\* notification posted within 2 * poll_ttl of that poll for a path below the
\* observer's root is buffered for the observer and returned by its next
\* pollchanges call: every such notification is in the observer's buffer
\* until a poll has returned it.
C20_NotificationKept == el.owed \subseteq (Buffered \cup el.returned)

\* C21: an observer whose expiry time has passed is removed at the next
\* notify and at the next poll for it: after a notify no observer of the table
\* has an expiry before the time of that notify, and a pollchanges request
\* that finds its observer past its expiry is answered with the error and
\* leaves the observer out of the table.
C21_ExpiredObserverRemoved ==
    /\ el.posted > 0 =>
          \A uid \in DOMAIN el.listeners :
              ~(el.listeners[uid].expires < el.notified)
    /\ el.poll.expired =>
          /\ el.poll.state = "error"
          /\ el.uid \notin DOMAIN el.listeners

\* The notify half of C21 on its own.
C21_NotifyRemovesExpired ==
    el.posted > 0 =>
        \A uid \in DOMAIN el.listeners :
            ~(el.listeners[uid].expires < el.notified)

(***************************************************************************)
(* server.py: one POST request, from the credentials to the reply.  A path *)
(* of the request is a string of characters, or a list of such strings, as *)
(* the client chose them; el holds the request, the status of the reply    *)
(* and the places of the filesystem the handler has used.                  *)
(***************************************************************************)
\* The characters a client builds its paths from, and the longest string and
\* path item of a request.
Chars == {"a", ".", "/", "*", "?"}
MaxPathLen == 3
MaxItemLen == 2
Strings(n) == UNION {[1..k -> Chars] : k \in 0..n}

os_sep == <<"/">>
os_pardir == <<".", ".">>
os_curdir == <<".">>

\* sub in str
Contains(str, sub) ==
    \E i \in 1..(Len(str) - Len(sub) + 1) :
        SubSeq(str, i, i + Len(sub) - 1) = sub

\* "/".join(items)
RECURSIVE str_join(_)
str_join(items) ==
    IF items = <<>> THEN <<>>
    ELSE IF Len(items) = 1 THEN items[1]
    ELSE items[1] \o os_sep \o str_join(Tail(items))

\* str.split("/")
RECURSIVE str_split(_)
str_split(str) ==
    IF ~Contains(str, os_sep) THEN <<str>>
    ELSE LET i == CHOOSE k \in 1..Len(str) :
                      /\ str[k] = "/"
                      /\ \A j \in 1..(k - 1) : str[j] # "/"
         IN <<SubSeq(str, 1, i - 1)>> \o str_split(SubSeq(str, i + 1, Len(str)))

\* os.path.join(a, *p) of posixpath
RECURSIVE os_path_join(_, _)
os_path_join(a, p) ==
    IF p = <<>> THEN a
    ELSE LET b == p[1]
             path == IF startswith(b, os_sep) THEN b
                     ELSE IF a = <<>> \/ a[Len(a)] = "/" THEN a \o b
                     ELSE a \o os_sep \o b
         IN os_path_join(path, Tail(p))

\* The place an absolute path string names, as the kernel walks it: empty
\* components and "." are skipped, ".." goes up.
RECURSIVE Walk(_, _)
Walk(at, names) ==
    IF names = <<>> THEN at
    ELSE IF names[1] \in {<<>>, os_curdir} THEN Walk(at, Tail(names))
    ELSE IF names[1] = os_pardir
    THEN Walk(IF at = <<>> THEN at ELSE SubSeq(at, 1, Len(at) - 1), Tail(names))
    ELSE Walk(Append(at, names[1]), Tail(names))

resolve(path) == Walk(<<>>, str_split(path))

\* os.path.join(self.config["backup_root"], user["prefix"])
homedir == <<"/", "h">>

\* _checksafepath(fname); islist is isinstance(fname, list).  ok is FALSE
\* when AbortRequest(400) is raised.
_checksafepath(fname, islist) ==
    LET joined == IF islist THEN str_join(fname) ELSE fname IN
    [ok |-> ~ \/ Contains(joined, os_pardir)
              \/ Contains(joined, <<"?">>)
              \/ Contains(joined, <<"*">>)
              \/ startswith(joined, os_sep)
              \/ startswith(joined, os_curdir \o os_sep),
     fname |-> joined]

\* MainHandler._localpath(homedir, fname)
_localpath(home, fname) ==
    LET safe == _checksafepath(fname, FALSE) IN
    [ok |-> safe.ok, path |-> os_path_join(home, <<safe.fname>>)]

\* A get_localpath that checks nothing.
get_localpath_unchecked(root, relpath) ==
    [ok |-> TRUE, path |-> os_path_join(root, relpath)]

\* LocalFsProvider.get_localpath(relpath) on a list of strings.  ok is FALSE
\* when the Exception is raised.
get_localpath_str(root, relpath) ==
    [ok |-> ~ \/ \E i \in DOMAIN relpath : relpath[i] \in {os_pardir, os_curdir}
              \/ (relpath # <<>> /\ relpath[1] = os_sep),
     path |-> os_path_join(root, relpath)]

\* VALID_PERMCODES = "WDRSTAN"
VALID_PERMCODES == {"W", "D", "R", "S", "T", "A", "N"}

\* self.config["passwdfile"], the one file of the server that is no user data.
passwdfile == <<"/", "p">>

\* One use of the filesystem by a handler.  The look of _localpath at homedir
\* itself is not recorded.
Use(op, path) == [op |-> op, path |-> path]

Reply(code, touched) == [code |-> code, touched |-> touched]

\* A checkperm that lets every request pass.
checkperm_skipped(perms, reqperm) == TRUE

\* checkperm(reqperm, msg) of post(): FALSE when AbortRequest(403) is raised.
checkperm(perms, reqperm) == reqperm \subseteq perms

\* action == "backup": _do_backup with one file part.
do_backup(req) ==
    LET safe == _checksafepath(req.fname, FALSE)
        lp == _localpath(homedir, req.fname).path
    IN IF ~checkperm(req.perms, {"W"}) THEN Reply(403, {})
       ELSE IF ~safe.ok THEN Reply(400, {})
       ELSE IF req.exists /\ "D" \notin req.perms
       THEN Reply(403, {Use("stat", lp)})
       ELSE IF req.exists
       THEN Reply(200, {Use("stat", lp), Use("delete", lp), Use("create", lp)})
       ELSE Reply(200, {Use("stat", lp), Use("create", lp)})

\* action == "restore": _do_restore
do_restore(req) ==
    LET lp == _localpath(homedir, req.fname) IN
    IF ~checkperm(req.perms, {"R"}) THEN Reply(403, {})
    ELSE IF req.fname = <<>> THEN Reply(400, {})
    ELSE IF ~lp.ok THEN Reply(400, {})
    ELSE IF ~req.exists THEN Reply(404, {Use("stat", lp.path)})
    ELSE Reply(200, {Use("stat", lp.path), Use("read", lp.path)})

\* action in check_exists, file_exists, directory_exists
do_exists(req) ==
    LET lp == _localpath(homedir, req.fname) IN
    IF ~checkperm(req.perms, {"S"}) THEN Reply(403, {})
    ELSE IF ~lp.ok THEN Reply(400, {})
    ELSE Reply(200, {Use("stat", lp.path)})

\* action == "mkdir"
do_mkdir(req) ==
    LET lp == _localpath(homedir, req.fname) IN
    IF ~checkperm(req.perms, {"W"}) THEN Reply(403, {})
    ELSE IF ~lp.ok THEN Reply(400, {})
    ELSE IF req.exists THEN Reply(200, {Use("stat", lp.path)})
    ELSE Reply(200, {Use("stat", lp.path), Use("create", lp.path)})

\* action == "iscasesensitive"
do_iscasesensitive(req) ==
    IF ~checkperm(req.perms, {"S"}) THEN Reply(403, {}) ELSE Reply(200, {})

\* action == "listdir": LocalFsProvider(homedir).listdir(params["relpath"])
do_listdir(req) ==
    LET lp == get_localpath_str(homedir, req.relpath) IN
    IF ~checkperm(req.perms, {"S"}) THEN Reply(403, {})
    ELSE IF ~_checksafepath(req.relpath, TRUE).ok THEN Reply(400, {})
    ELSE IF ~lp.ok THEN Reply(500, {})
    ELSE IF ~req.exists THEN Reply(404, {Use("stat", lp.path)})
    ELSE Reply(200, {Use("stat", lp.path), Use("list", lp.path)})

\* action == "getinfo": LocalFsProvider(root).getinfo(params["items"],
\* params["encrypted"]) with one item.
do_getinfo(req) ==
    LET root == os_path_join(homedir, <<req.root>>)
        lp == get_localpath_str(root, req.item)
    IN IF ~checkperm(req.perms, {"S"}) THEN Reply(403, {})
       ELSE IF ~_checksafepath(req.root, FALSE).ok THEN Reply(400, {})
       ELSE IF ~lp.ok THEN Reply(500, {})
       ELSE IF ~req.exists THEN Reply(500, {Use("stat", lp.path)})
       ELSE IF req.encrypted
       THEN Reply(200, {Use("stat", lp.path), Use("read", lp.path)})
       ELSE Reply(200, {Use("stat", lp.path)})

\* action == "receivechanges" with one record: the checks of post(), then
\* LocalFsProvider(root).receivechanges.
do_receivechanges(req) ==
    LET root == os_path_join(homedir, <<req.root>>)
        lp == get_localpath_str(root, str_split(req.fname))
    IN IF ~checkperm(req.perms, {"D", "W", "S"}) THEN Reply(403, {})
       ELSE IF ~_checksafepath(req.root, FALSE).ok THEN Reply(400, {})
       ELSE IF ~_checksafepath(req.fname, FALSE).ok THEN Reply(400, {})
       ELSE IF ~lp.ok THEN Reply(500, {})
       ELSE IF req.op = "delete"
       THEN Reply(200, {Use("stat", lp.path), Use("delete", lp.path)})
       ELSE Reply(200, {Use("stat", lp.path), Use("delete", lp.path),
                        Use("create", lp.path)})

\* action in getusers, saveuser, deleteuser
do_useradmin(req) ==
    IF ~checkperm(req.perms, {"A"}) THEN Reply(403, {})
    ELSE IF req.action = "getusers" THEN Reply(200, {Use("passwd", passwdfile)})
    ELSE Reply(200, {Use("passwd", passwdfile), Use("create", passwdfile)})

\* action == "utcnow"
do_utcnow(req) ==
    IF ~checkperm(req.perms, {"T"}) THEN Reply(403, {}) ELSE Reply(200, {})

\* action == "listenchanges"
do_listenchanges(req) ==
    IF ~checkperm(req.perms, {"N"}) THEN Reply(403, {})
    ELSE IF ~_checksafepath(req.root, FALSE).ok THEN Reply(400, {})
    ELSE Reply(200, {})

\* action == "pollchanges"; exists says whether the uid is registered.
do_pollchanges(req) ==
    IF ~checkperm(req.perms, {"N"}) THEN Reply(403, {})
    ELSE IF ~req.exists THEN Reply(404, {})
    ELSE Reply(200, {})

\* post() up to the dispatch: unknown login, wrong password and an empty
\* permission string are answered 403.
post(req, handler(_)) ==
    IF req.login # "u" THEN Reply(403, {})
    ELSE IF ~req.pwdok THEN Reply(403, {})
    ELSE IF req.perms = {} THEN Reply(403, {})
    ELSE handler(req)

\* The requests: the paths a client can choose (a string; a list of one item,
\* or of two items one of which is "a"), sent by a user holding every
\* permission; and every login, password and permission string, sent with the
\* path "a".
Items == Strings(MaxItemLen)
ItemLists ==
    {<<>>} \cup {<<a>> : a \in Items}
           \cup {<< <<"a">>, b >> : b \in Items} \cup {<<b, <<"a">> >> : b \in Items}
RequestRoots == {<<>>, <<"a">>, <<"/">>, <<".", ".">>}
FnameActions == {"backup", "restore", "check_exists", "file_exists",
                 "directory_exists", "mkdir"}
Actions == FnameActions \cup
           {"iscasesensitive", "listdir", "getinfo", "receivechanges",
            "getusers", "saveuser", "deleteuser", "utcnow", "listenchanges",
            "pollchanges"}

Request(action) ==
    [action |-> action, login |-> "u", pwdok |-> TRUE, perms |-> VALID_PERMCODES,
     fname |-> <<"a">>, relpath |-> << <<"a">> >>, root |-> <<>>,
     item |-> << <<"a">> >>, encrypted |-> FALSE, exists |-> FALSE,
     op |-> "delete"]

PathRequests ==
    {[Request(a) EXCEPT !.fname = f, !.exists = e] :
        a \in FnameActions \ {"check_exists", "directory_exists"},
        f \in Strings(MaxPathLen), e \in BOOLEAN}
    \cup {[Request("listdir") EXCEPT !.relpath = r, !.exists = e] :
            r \in ItemLists, e \in BOOLEAN}
    \cup {[Request("getinfo") EXCEPT !.root = root, !.item = r,
                                     !.encrypted = c, !.exists = e] :
            root \in RequestRoots, r \in ItemLists, c \in BOOLEAN,
            e \in BOOLEAN}
    \cup {[Request("receivechanges") EXCEPT !.root = root, !.fname = f,
                                            !.op = op] :
            root \in RequestRoots, f \in Strings(MaxPathLen),
            op \in {"delete", "directory", "file"}}
    \cup {[Request("listenchanges") EXCEPT !.root = root] : root \in RequestRoots}

PermRequests ==
    {[Request(a) EXCEPT !.login = l, !.pwdok = ok, !.perms = ps, !.exists = e] :
        a \in Actions, l \in {"u", "nobody"}, ok \in BOOLEAN,
        ps \in SUBSET VALID_PERMCODES, e \in BOOLEAN}

InitPost ==
    /\ el \in {[req |-> r, code |-> 0, touched |-> {}] :
                 r \in PathRequests \cup PermRequests}
    /\ BgIdle
    /\ ic = IcIdle
    /\ SyncIdle
    /\ CfIdle
    /\ LsIdle
    /\ PvIdle

\* post() for a request with the given actions.
Post(actions, handler(_)) ==
    /\ el.code = 0
    /\ el.req.action \in actions
    /\ LET reply == post(el.req, handler)
       IN el' = [el EXCEPT !.code = reply.code, !.touched = reply.touched]
    /\ UNCHANGED <<now, serverIdleVars>>

PostBackup == Post({"backup"}, do_backup)
PostRestore == Post({"restore"}, do_restore)
PostExists == Post({"check_exists", "file_exists", "directory_exists"}, do_exists)
PostMkdir == Post({"mkdir"}, do_mkdir)
PostIsCaseSensitive == Post({"iscasesensitive"}, do_iscasesensitive)
PostListDir == Post({"listdir"}, do_listdir)
PostGetInfo == Post({"getinfo"}, do_getinfo)
PostReceiveChanges == Post({"receivechanges"}, do_receivechanges)
PostUserAdmin == Post({"getusers", "saveuser", "deleteuser"}, do_useradmin)
PostUtcNow == Post({"utcnow"}, do_utcnow)
PostListenChanges == Post({"listenchanges"}, do_listenchanges)
PostPollChanges == Post({"pollchanges"}, do_pollchanges)

NextPost ==
    \/ PostBackup
    \/ PostRestore
    \/ PostExists
    \/ PostMkdir
    \/ PostIsCaseSensitive
    \/ PostListDir
    \/ PostGetInfo
    \/ PostReceiveChanges
    \/ PostUserAdmin
    \/ PostUtcNow
    \/ PostListenChanges
    \/ PostPollChanges

SpecPost == InitPost /\ [][NextPost]_vars

\* A path of user data lies in homedir: the place it names is homedir or
\* below it.
Confined(path) == startswith(resolve(path), resolve(homedir))

\* C22: no server action stats, reads, creates or deletes a path outside
\* backup_root/<user.prefix>, whatever path components the client sends:
\* every place a handler has used for user data lies in homedir.
C22_ConfinedToHome ==
    \A t \in el.touched : t.op # "passwd" /\ t.path # passwdfile => Confined(t.path)

\* The relative path of a request, as one string.
RelPathOf(req) ==
    IF req.action = "listdir" THEN str_join(req.relpath)
    ELSE IF req.action = "getinfo" THEN str_join(req.item)
    ELSE req.fname

\* C23 speaks of a relative path that contains "..", "?" or "*" or begins
\* with the separator.
Unsafe(path) ==
    \/ Contains(path, os_pardir)
    \/ Contains(path, <<"?">>)
    \/ Contains(path, <<"*">>)
    \/ startswith(path, os_sep)

\* C23: for every relative path containing "..", "?", "*" or a leading
\* separator, list_dir, get_info, backup and restore fail before touching the
\* filesystem: the request is answered with an error and no place of the
\* filesystem has been used.
C23_UnsafePathRejected ==
    (/\ el.code # 0
     /\ el.req.action \in {"listdir", "getinfo", "backup", "restore"}
     /\ el.req.perms = VALID_PERMCODES /\ el.req.login = "u" /\ el.req.pwdok
     /\ Unsafe(RelPathOf(el.req)))
    => (el.code \in {400, 500} /\ el.touched = {})

\* The permission codes C24 requires for an action.
Required(action) ==
    CASE action = "backup" -> {"W"}
      [] action = "restore" -> {"R"}
      [] action \in {"listdir", "getinfo", "check_exists", "file_exists",
                     "directory_exists", "iscasesensitive"} -> {"S"}
      [] action = "receivechanges" -> {"D", "W", "S"}
      [] action = "mkdir" -> {"W"}
      [] action = "utcnow" -> {"T"}
      [] action \in {"listenchanges", "pollchanges"} -> {"N"}
      [] action \in {"getusers", "saveuser", "deleteuser"} -> {"A"}

\* C24: the server reads or changes the filesystem for an action only if the
\* permission string of the authenticated user holds every code the action
\* requires, and D as well where backup replaces an existing file; otherwise
\* the request is answered 403, and so is every request with bad credentials.
C24_PermissionsGateActions ==
    el.code # 0 =>
        LET req == el.req
            authenticated == req.login = "u" /\ req.pwdok
        IN /\ ~authenticated => el.code = 403 /\ el.touched = {}
           /\ ~(Required(req.action) \subseteq req.perms) =>
                 el.code = 403 /\ el.touched = {}
           /\ (req.action = "backup" /\ req.exists /\ "D" \notin req.perms) =>
                 /\ el.code = 403
                 /\ \A t \in el.touched : t.op \notin {"delete", "create"}

\* C24 happens: an authenticated user holding D and W but not S has asked for
\* receivechanges and got 403 with nothing touched.
C24_Witness ==
    /\ el.req.action = "receivechanges"
    /\ el.req.login = "u" /\ el.req.pwdok
    /\ el.req.perms = {"D", "W"}
    /\ el.code = 403
    /\ el.touched = {}

(***************************************************************************)
(* The listener threads of continuous mode.  listenchanges constructs the  *)
(* listener and starts its thread; bsync keeps the listeners in a list     *)
(* and, when do_bg_sync ends, calls request_stop on each and then join on  *)
(* each.  ls holds the listeners and the position of the main thread.      *)
(***************************************************************************)
\* The listeners bsync can hold: one per direction.
MaxListeners == 2

\* A listener after __init__ (two fresh threading.Event objects) and
\* listener.start(): its thread is about to call run().
NewListener(kind) ==
    [kind |-> kind, pc |-> "run", stop_requested |-> FALSE, stopped |-> FALSE,
     requested |-> FALSE]

InitListeners ==
    /\ \E n \in 1..MaxListeners :
         ls \in [listeners : [1..n -> {NewListener(k) : k \in {"local", "blind"}}],
                 main : {[pc |-> "do_bg_sync", i |-> 1]}]
    /\ BgIdle
    /\ ic = IcIdle
    /\ SyncIdle
    /\ CfIdle
    /\ ElIdle
    /\ PvIdle

listenerIdleVars == <<syncVars, bgVars, ic, cf, el, pv>>

\* One step of the thread of listener i, from pc to the next position.
ListenerStep(i, from, to, stop_requested, stopped) ==
    /\ i \in DOMAIN ls.listeners
    /\ ls.listeners[i].pc = from
    /\ ls' = [ls EXCEPT !.listeners[i].pc = to,
                        !.listeners[i].stop_requested = stop_requested,
                        !.listeners[i].stopped = stopped]
    /\ UNCHANGED listenerIdleVars

\* run(): self.stopped.clear()
ListenerClearStopped ==
    \E i \in 1..MaxListeners :
        ListenerStep(i, "run", "clear", ls.listeners[i].stop_requested, FALSE)

\* run(): self.stop_requested.clear()
ListenerClearRequested ==
    \E i \in 1..MaxListeners :
        ListenerStep(i, "clear", "setup", FALSE, ls.listeners[i].stopped)

\* run(): the watchdog observer is started (LocalFsListener), or the uid is
\* fetched with listenchanges (BlindFsListener).
ListenerSetup ==
    \E i \in 1..MaxListeners :
        ListenerStep(i, "setup", "loop", ls.listeners[i].stop_requested,
                     ls.listeners[i].stopped)

\* run(): while not self.stop_requested.is_set()
ListenerLoopTest ==
    \E i \in 1..MaxListeners :
        /\ i \in DOMAIN ls.listeners
        /\ ListenerStep(i, "loop",
                        IF ls.listeners[i].stop_requested THEN "exit" ELSE "body",
                        ls.listeners[i].stop_requested, ls.listeners[i].stopped)

\* run(): time.sleep(1) (LocalFsListener), or one pollchanges call and the
\* onchange calls for its events (BlindFsListener).
ListenerLoopBody ==
    \E i \in 1..MaxListeners :
        ListenerStep(i, "body", "loop", ls.listeners[i].stop_requested,
                     ls.listeners[i].stopped)

\* run(): the observer is stopped and joined (LocalFsListener);
\* self.stopped.set(); the thread ends.
ListenerExit ==
    \E i \in 1..MaxListeners :
        ListenerStep(i, "exit", "terminated", ls.listeners[i].stop_requested, TRUE)

\* bsync, finally: for listener in listeners: listener.request_stop()
ShutdownRequestStop ==
    /\ ls.main.pc \in {"do_bg_sync", "request_stop"}
    /\ LET i == ls.main.i
           last == i = Len(ls.listeners)
       IN ls' = [ls EXCEPT !.listeners[i].stop_requested = TRUE,
                           !.listeners[i].requested = TRUE,
                           !.main = [pc |-> IF last THEN "join" ELSE "request_stop",
                                     i |-> IF last THEN 1 ELSE i + 1]]
    /\ UNCHANGED listenerIdleVars

\* bsync, finally: for listener in listeners: listener.join()
ShutdownJoin ==
    /\ ls.main.pc = "join"
    /\ LET i == ls.main.i
           last == i = Len(ls.listeners)
       IN /\ ls.listeners[i].pc = "terminated"
          /\ ls' = [ls EXCEPT !.main = [pc |-> IF last THEN "joined" ELSE "join",
                                        i |-> IF last THEN 1 ELSE i + 1]]
    /\ UNCHANGED listenerIdleVars

NextListeners ==
    \/ ListenerClearStopped
    \/ ListenerClearRequested
    \/ ListenerSetup
    \/ ListenerLoopTest
    \/ ListenerLoopBody
    \/ ListenerExit
    \/ ShutdownRequestStop
    \/ ShutdownJoin

SpecListeners == InitListeners /\ [][NextListeners]_vars

\* Every thread that can take a step takes it in the end.
SpecListenersFair ==
    /\ SpecListeners
    /\ WF_vars(ListenerClearStopped)
    /\ WF_vars(ListenerClearRequested)
    /\ WF_vars(ListenerSetup)
    /\ WF_vars(ListenerLoopTest)
    /\ WF_vars(ListenerLoopBody)
    /\ WF_vars(ListenerExit)
    /\ WF_vars(ShutdownRequestStop)
    /\ WF_vars(ShutdownJoin)

\* C25: after request_stop() on a listener its thread sees the request at its
\* next loop test, sets its stopped flag and ends, so that join() returns,
\* however request_stop falls into the start of the thread: every listener
\* that was asked to stop ends with its stopped flag set.
C25_StopRequestEndsListener ==
    \A i \in 1..MaxListeners :
        (i \in DOMAIN ls.listeners /\ ls.listeners[i].requested)
            ~> (/\ i \in DOMAIN ls.listeners
                /\ ls.listeners[i].pc = "terminated"
                /\ ls.listeners[i].stopped)

\* The safety core of C25: a request to stop is not forgotten while the
\* thread runs.
C25_StopRequestKept ==
    \A i \in DOMAIN ls.listeners :
        ls.listeners[i].requested => ls.listeners[i].stop_requested

(***************************************************************************)
(* Provider objects.  The root of a LocalFsProvider is a string, a value;  *)
(* the root of a BlindFsProvider is a Python list, an object other         *)
(* providers may hold too: pv.lists maps each list object to its items.    *)
(* pv.objs is the providers in the order of their construction, the two    *)
(* providers of bsync first.                                               *)
(***************************************************************************)
\* The clones that exist together, the keys, and the paths of the events.
MaxClones == 2
ProviderKeys == {NoKey, "k1"}
EventRelpaths == {PathA, PathAB}
\* A root is drilled no deeper than the longest event path below the root of
\* a provider of bsync.
MaxRootDepth == 1 + Len(PathAB)

\* The root of provider o, as path items.
RootOf(p, o) == IF o.kind = "blind" THEN p.lists[o.root] ELSE o.root

\* LocalFsProvider(root) / BlindFsProvider(client, root, tmpdir): a blind
\* provider keeps the list it is given; the keys are the class attributes
\* None; FsProvider.__init__ draws a new uid.
NewProvider(kind, root, uid) ==
    [kind |-> kind, root |-> root, uid |-> uid,
     encryptionkey |-> NoKey, decryptionkey |-> NoKey,
     from |-> 0, root0 |-> <<>>, drilled |-> <<>>,
     keys0 |-> <<NoKey, NoKey>>, origkeys |-> <<NoKey, NoKey>>]

\* A clone that also takes the keys of its original.
clone_with_keys(p, i) ==
    LET o == p.objs[i]
        res == [NewProvider(o.kind, o.root, o.uid) EXCEPT
                   !.encryptionkey = o.encryptionkey,
                   !.decryptionkey = o.decryptionkey,
                   !.from = i,
                   !.root0 = RootOf(p, o),
                   !.keys0 = <<o.encryptionkey, o.decryptionkey>>,
                   !.origkeys = <<o.encryptionkey, o.decryptionkey>>]
    IN [p EXCEPT !.objs = Append(@, res)]

\* clone(): res = Provider(self.root...); res.uid = self.get_uid().  The
\* history fields keep the original, its root and keys at this moment and the
\* keys of the clone as clone() returns it.
clone(p, i) ==
    LET o == p.objs[i]
        res == [NewProvider(o.kind, o.root, "fresh") EXCEPT
                   !.uid = o.uid,
                   !.from = i,
                   !.root0 = RootOf(p, o),
                   !.origkeys = <<o.encryptionkey, o.decryptionkey>>]
    IN [p EXCEPT !.objs = Append(@, [res EXCEPT
                    !.keys0 = <<res.encryptionkey, res.decryptionkey>>])]

\* A drill that extends the list object in place (self.root += relpath).
drill_in_place(p, i, relpath) ==
    LET o == p.objs[i] IN
    IF o.kind = "blind"
    THEN [p EXCEPT !.lists[o.root] = @ \o relpath,
                   !.objs[i].drilled = @ \o relpath]
    ELSE [p EXCEPT !.objs[i].root = @ \o relpath,
                   !.objs[i].drilled = @ \o relpath]

\* drill(relpath): self.root = self.root + relpath makes a new list
\* (BlindFsProvider); self.root = os.path.join(self.root, ...) a new string
\* (LocalFsProvider).
drill(p, i, relpath) ==
    LET o == p.objs[i]
        new == Len(p.lists) + 1
    IN IF o.kind = "blind"
       THEN [p EXCEPT !.lists = Append(@, p.lists[o.root] \o relpath),
                      !.objs[i].root = new,
                      !.objs[i].drilled = @ \o relpath]
       ELSE [p EXCEPT !.objs[i].root = @ \o relpath,
                      !.objs[i].drilled = @ \o relpath]

InitProviders ==
    /\ \E srckind, dstkind \in {"local", "blind"}, srckey, dstkey \in ProviderKeys :
         LET root(kind, n, r) == IF kind = "blind" THEN n ELSE r
         IN pv = [objs |-> <<[NewProvider(srckind, root(srckind, 1, <<"s">>), "u1")
                                 EXCEPT !.root0 = <<"s">>],
                             [NewProvider(dstkind, root(dstkind, 2, <<"d">>), "u2")
                                 EXCEPT !.root0 = <<"d">>]>>,
                  lists |-> << <<"s">>, <<"d">> >>,
                  srckey |-> srckey, dstkey |-> dstkey]
    /\ BgIdle
    /\ ic = IcIdle
    /\ SyncIdle
    /\ CfIdle
    /\ ElIdle
    /\ LsIdle

providerIdleVars == <<syncVars, bgVars, ic, cf, el, ls>>

\* SyncDir.sync(src, dst, options, srckey, dstkey) on the two providers of
\* bsync, as far as it sets their keys.
ProviderSync ==
    /\ pv' = [pv EXCEPT !.objs[1].decryptionkey = NoKey,
                        !.objs[1].encryptionkey = NoKey,
                        !.objs[2].decryptionkey = pv.srckey,
                        !.objs[2].encryptionkey = pv.dstkey]
    /\ UNCHANGED providerIdleVars

\* provider.clone()
ProviderClone ==
    /\ Len(pv.objs) < 2 + MaxClones
    /\ \E i \in DOMAIN pv.objs : pv' = clone(pv, i)
    /\ UNCHANGED providerIdleVars

\* clone.drill(relpath)
ProviderDrill ==
    /\ \E i \in DOMAIN pv.objs, relpath \in EventRelpaths :
         /\ pv.objs[i].from # 0
         /\ Len(RootOf(pv, pv.objs[i])) + Len(relpath) <= MaxRootDepth
         /\ pv' = drill(pv, i, relpath)
    /\ UNCHANGED providerIdleVars

\* onchange_any(changed, other, changedkey, otherkey, syncdelete, relpath) of
\* the src-to-dst reducer, up to the call of sync: both providers are cloned
\* and drilled.  The clones of the event before are garbage.
OnChangeAny ==
    /\ \E relpath \in EventRelpaths :
         LET p0 == [pv EXCEPT !.objs = SubSeq(@, 1, 2),
                              !.lists = SubSeq(@, 1, 2)]
             p1 == clone(p0, 1)
             p2 == drill(p1, 3, relpath)
             p3 == clone(p2, 2)
             p4 == [p3 EXCEPT !.objs[4].decryptionkey = pv.srckey,
                              !.objs[4].encryptionkey = pv.dstkey]
             drill_path == recrypt_path_items(pv.srckey, pv.dstkey, relpath)
         IN pv' = drill(p4, 4, drill_path)
    /\ UNCHANGED providerIdleVars

NextProviders ==
    \/ ProviderSync
    \/ ProviderClone
    \/ ProviderDrill
    \/ OnChangeAny

SpecProviders == InitProviders /\ [][NextProviders]_vars

\* C26: clone() returns a provider with the uid of the original and a root
\* of its own: the root of every provider is the root it was made with
\* followed by what was drilled on this very provider, so drilling a clone,
\* in the drilled syncs of continuous mode too, changes neither the root of
\* the original nor of another clone; and every clone has the uid of its
\* original.
C26_CloneIndependentRoot ==
    \A i \in DOMAIN pv.objs :
        LET o == pv.objs[i] IN
        /\ RootOf(pv, o) = o.root0 \o o.drilled
        /\ o.from # 0 => o.uid = pv.objs[o.from].uid

\* C26 happens: two clones of one blind provider exist, one of them drilled,
\* the other and the original are where they were.
C26_Witness ==
    \E i, j \in DOMAIN pv.objs :
        /\ i # j
        /\ pv.objs[i].kind = "blind"
        /\ pv.objs[i].from # 0
        /\ pv.objs[j].from = pv.objs[i].from
        /\ pv.objs[i].drilled # <<>>
        /\ pv.objs[j].drilled = <<>>
        /\ RootOf(pv, pv.objs[j]) = RootOf(pv, pv.objs[pv.objs[i].from])

\* C27 as stated: the keys of a clone, as clone() returns it, are the keys the
\* original had at that moment.
C27_AsStated ==
    \A i \in DOMAIN pv.objs :
        pv.objs[i].from # 0 => pv.objs[i].keys0 = pv.objs[i].origkeys

\* C27, amended: clone() copies no key: whatever keys the original has, the
\* clone comes with encryptionkey and decryptionkey None and with the uid and
\* root of the original; it has keys only once its user sets them.
C27_CloneHasNoKeys ==
    \A i \in DOMAIN pv.objs :
        LET o == pv.objs[i] IN
        o.from # 0 =>
            /\ o.keys0 = <<NoKey, NoKey>>
            /\ o.uid = pv.objs[o.from].uid
            /\ o.root0 \o o.drilled = RootOf(pv, o)

\* C27 happens: a provider that had a key when it was cloned, and its clone.
C27_Witness ==
    \E i \in DOMAIN pv.objs :
        /\ pv.objs[i].from # 0
        /\ pv.objs[i].origkeys # <<NoKey, NoKey>>
        /\ pv.objs[i].keys0 = <<NoKey, NoKey>>

(***************************************************************************)
(* bsync, do_sync in symmetric mode 's': sync(src, dst, ...) and then      *)
(* sync(dst, src, ...) with syncdelete off (the first sync deletes when the *)
(* mode has 'd').  The sync of the model runs                               *)
(* from SrcRoot to DstRoot, so for the second sync the two trees change    *)
(* places: Swap renames S/... to D/... and back.  hist.phase tells which   *)
(* sync runs, hist.fs0 is the file system when do_sync was called.         *)
(***************************************************************************)
Swap(f) ==
    LET other(q) == IF IsPrefix(SrcRoot, q)
                    THEN DstRoot \o SubSeq(q, Len(SrcRoot) + 1, Len(q))
                    ELSE SrcRoot \o SubSeq(q, Len(DstRoot) + 1, Len(q))
    IN [q \in {other(x) : x \in DOMAIN f} |-> f[other(q)]]

InitSymmetric ==
    /\ ic = IcIdle
    /\ CfIdle
    /\ ElIdle
    /\ LsIdle
    /\ PvIdle
    /\ cfg \in SyncOptions({CMP_CHANGED, CMP_NEWER, CMP_IGNORE},
                           {CMP_CHANGED, CMP_BIGGER, CMP_IGNORE},
                           {"local"}, {NoKey}, {NoKey})
    /\ fs \in InitTrees(NoKey, NoKey)
    /\ snd = <<>>
    /\ rcv = RcvIdle
    /\ hist = [fs0 |-> fs, sent |-> {}, phase |-> 1]
    /\ BgIdle

\* do_sync: the first sync has returned; options["syncdelete"] = False;
\* syncdir.sync(dst, src, options, dstkey, srckey, logchanges) up to the
\* first next(sender).
SyncBack ==
    /\ rcv.pc = "done"
    /\ hist.phase = 1
    /\ LET back == Swap(fs)
           options == [cfg EXCEPT !.syncdelete = FALSE,
                                  !.srckey = cfg.dstkey, !.dstkey = cfg.srckey,
                                  !.srckind = cfg.dstkind, !.dstkind = cfg.srckind]
           r == compare(back, options)
           e(paths) == {encrypt_path_items(options.srckey, q) : q \in paths}
       IN /\ fs' = back
          /\ cfg' = options
          /\ snd' = <<Frame(e(r.delet), e(r.dcopy), e(r.fcopy))>>
    /\ rcv' = [RcvIdle EXCEPT !.pc = "loop"]
    /\ hist' = [hist EXCEPT !.phase = 2]
    /\ UNCHANGED <<bgVars, cf, el, ls, pv, ic>>

NextSymmetric ==
    \/ Sync
    \/ SyncBack
    \/ RecvDelete
    \/ RecvDirectory
    \/ RecvFile
    \/ RecvFileRemove
    \/ RecvFileRename
    \/ RecvFileUtime
    \/ RecvFileError
    \/ RecvStop

SpecSymmetric == InitSymmetric /\ [][NextSymmetric]_vars

\* A file that differs on the two sides in time and in size when do_sync is
\* called: whatever the comparison mode looks at, it sees a changed file.
ChangedOnBothSides(rel) ==
    LET s == get_localpath(SrcRoot, rel)
        d == get_localpath(DstRoot, rel)
    IN /\ isfile(hist.fs0, s)
       /\ isfile(hist.fs0, d)
       /\ hist.fs0[s].mtime # hist.fs0[d].mtime
       /\ SizeOf(hist.fs0[s].data) # SizeOf(hist.fs0[d].data)

Drains(r) == bh'.drains[r] = bh.drains[r] + 1
Hands(r) == Len(bh'.calls[r]) = Len(bh.calls[r]) + 1
BatchEnds(r) == red[r].pc = "process" /\ red'[r].pc = "top"

\* The time of the most recent add_event call on r that found the reducer
\* running, whether the event was added or dropped for a queued parent.
MostRecentAdd(r) ==
    LET taken == {i \in 1..Len(bh.added[r]) : bh.added[r][i].taken}
    IN IF taken = {} THEN 0
       ELSE bh.added[r][CHOOSE i \in taken : \A j \in taken : j <= i].at

\* The pending set is taken only when it is non-empty and more than ttl has
\* passed since the most recent add_event call; taking it empties it.
C29_DrainedWhenSettled ==
    [][\A r \in DOMAIN red :
         Drains(r) => /\ red[r].events # {}
                      /\ MostRecentAdd(r) + ttl < now
                      /\ red'[r].events = {}
                      /\ red'[r].to_process = red[r].events]_vars

\* The handler gets a path of the batch that it has not had yet.
C29_HandedAtMostOnce ==
    [][\A r \in DOMAIN red :
         Hands(r) => /\ Last(bh'.calls[r]) \in red[r].to_process
                     /\ red'[r].to_process = red[r].to_process \ {Last(bh'.calls[r])}]_vars

\* The pending set is taken, and its paths handed over, while can_trigger is
\* set.
C29_CanTriggerSet ==
    [][\A r \in DOMAIN red : (Drains(r) \/ Hands(r)) => shared.can_trigger]_vars

\* C29: the reducer hands pending events to the handler only at a tick at
\* which can_trigger is set, the pending set is non-empty and more than TTL
\* has passed since the most recent add_event call, dropped ones included;
\* the drain empties the pending set and every drained path is handed to the
\* handler exactly once.
C29_QuiescenceTrigger ==
    [][\A r \in DOMAIN red :
         /\ Drains(r) => /\ shared.can_trigger
                         /\ red[r].events # {}
                         /\ MostRecentAdd(r) + ttl < now
                         /\ red'[r].events = {}
                         /\ red'[r].to_process = red[r].events
         /\ Hands(r) => /\ Last(bh'.calls[r]) \in red[r].to_process
                        /\ red'[r].to_process = red[r].to_process \ {Last(bh'.calls[r])}
         /\ BatchEnds(r) => red[r].to_process = {}]_vars

\* The last second of the clock when the reducer is watched until it has
\* settled: an event added up to MaxQuiet - ttl - 1 can still become due.
MaxQuiet == 7

\* A second passes.
TickOn ==
    /\ now < MaxQuiet
    /\ now' = now + 1
    /\ UNCHANGED <<cf, el, ls, pv, ic, syncVars, main, shared, red, insync, bh>>

\* add_event, as long as the clock has room for the event to become due.
AddEventInTime ==
    /\ now + ttl < MaxQuiet
    /\ AddEvent

NextQueue ==
    \/ AddEventInTime
    \/ TickOn
    \/ MainAcquire
    \/ MainClear
    \/ MainSyncEnter
    \/ MainSyncExit
    \/ MainFinally
    \/ MainRelease
    \/ MainBgSync
    \/ MainStop
    \/ ReducerTop
    \/ ReducerCheck
    \/ ReducerDrain
    \/ ReducerProcess
    \/ ReducerSyncExit

\* The events of the two-level scenario: a, a/b.
QueuePaths == {PathA, PathAB}

\* --bg-src-to-dst only: one reducer, fed a and a/b, each once or one of them
\* twice.
InitQueue == InitBgWith({"src_to_dst"}, QueuePaths, Cardinality(QueuePaths), {FALSE})

SpecQueue == InitQueue /\ [][NextQueue]_vars

\* Time passes, and every thread that can take a step takes it in the end;
\* the main thread is free to start a background sync or to stop, or not.
SpecQueueFair ==
    /\ SpecQueue
    /\ WF_vars(TickOn)
    /\ WF_vars(MainAcquire)
    /\ WF_vars(MainClear)
    /\ WF_vars(MainSyncEnter)
    /\ WF_vars(MainSyncExit)
    /\ WF_vars(MainFinally)
    /\ WF_vars(MainRelease)
    /\ WF_vars(ReducerTop)
    /\ WF_vars(ReducerCheck)
    /\ WF_vars(ReducerDrain)
    /\ WF_vars(ReducerProcess)
    /\ WF_vars(ReducerSyncExit)

\* Reducer r is between the drain and the end of the for loop over to_process.
Processing(r) == red[r].pc \in {"process", "insync"}

\* add_event is called on r, while r is processing, before request_stop.
AddsWhileProcessing(r) ==
    /\ Len(bh'.added[r]) = Len(bh.added[r]) + 1
    /\ Processing(r)
    /\ ~red[r].stop_requested

\* An event added while the reducer thread is processing a drained batch is
\* queued at once, itself or under a queued parent, and the batch and the
\* reducer thread are left as they were.
QueuedNotInBatch ==
    \A r \in DOMAIN red :
        AddsWhileProcessing(r) =>
            /\ Covered(red'[r].events, Last(bh'.added[r]).relpath)
            /\ red'[r].to_process = red[r].to_process
            /\ red'[r].pc = red[r].pc

\* An event that is pending while a batch is processed is handed to the
\* handler, itself or as its queued parent, after a later drain, unless the
\* reducer is asked to stop.
HandedLater ==
    \A p \in QueuePaths : \A k \in 0..Cardinality(QueuePaths) :
        (/\ Processing("src_to_dst")
         /\ p \in red["src_to_dst"].events
         /\ bh.drains["src_to_dst"] = k)
            ~> (\/ red["src_to_dst"].stop_requested
                \/ /\ bh.drains["src_to_dst"] > k
                   /\ red["src_to_dst"].pc = "insync"
                   /\ IsPrefix(Last(bh.calls["src_to_dst"]), p))

PendingCount(b) == Len(b.delet) + Len(b.dcopy) + Len(b.fcopy)

RECURSIVE PendingBytes(_)
PendingBytes(fcopy) ==
    IF fcopy = <<>> THEN 0 ELSE Head(fcopy).fsize + PendingBytes(Tail(fcopy))

\* C31: BlindFsProvider.receivechanges makes a request in the middle of the
\* stream only when the records held for it, those not yet sent, number more
\* than the count threshold or their files together are bigger than the size
\* threshold.
C31_FlushOnlyWhenFull ==
    rcv.pc = "flush" =>
        \/ PendingCount(rcv.batch) > BatchMaxCnt
        \/ PendingBytes(rcv.batch.fcopy) > BatchMaxBytes

\* The temp files queued by receivechanges: the outputs of the re-cryption
\* and the bodies the receiver owns.
QueuedTempFiles(b) ==
    {b.encfiles[i] : i \in 1..Len(b.encfiles)}
        \cup {b.ownedfiles[i] : i \in 1..Len(b.ownedfiles)}

\* C32: when BlindFsProvider.receivechanges fails, every temp file queued so
\* far, re-cryption outputs and RECEIVER-owned bodies, has been unlinked when
\* the error leaves receivechanges.
C32_TempFilesUnlinkedOnFailure ==
    (cfg.dstkind = "blind" /\ rcv.pc = "failed") =>
        \A path \in QueuedTempFiles(rcv.batch) : ~isfile(fs, path)

\* The records of one kind, in the order of the sequence.
OfKind(recs, op) == SelectSeq(recs, LAMBDA r : r.op = op)

\* C38: every record of the stream that BlindFsProvider.receivechanges has
\* consumed is sent to the server in exactly one request, none lost and none
\* twice, also when the stream ends right after a flush; and the records of
\* one kind reach the server in the order of the stream.
C38_EachRecordSentOnce ==
    (cfg.dstkind = "blind" /\ rcv.pc = "done") =>
        \A op \in {"delete", "directory", "file"} :
            OfKind(Flat(hist.handled), op) = OfKind(hist.arrived, op)

\* A stream of several records that ended right after a flush: the last of
\* several requests carries nothing.
C38_Witness ==
    /\ cfg.dstkind = "blind"
    /\ rcv.pc = "done"
    /\ Len(hist.handled) >= 3
    /\ Last(hist.handled) = <<>>
    /\ Len(hist.arrived) >= 3
    /\ \E i \in 1..Len(hist.arrived) : hist.arrived[i].op = "file"

(***************************************************************************)
(* Change notification end to end (C34, C35, C40): the server's mutating   *)
(* actions, EventListener.notify, and the BlindFsListener of provider       *)
(* el.P, which hands every change to on_change of bsync.  el.Q is another   *)
(* BlindFsProvider on the same server.  Paths are strings of characters,    *)
(* roots are lists of such strings.                                         *)
(***************************************************************************)
NotifyRoots == {<<>>, << <<"d">> >>, << <<"e">> >>}
NotifyPaths == {<<"x">>, <<"d", "/", "x">>}
NotifyKinds == {"delete", "directory", "file"}

\* BlindFsProvider.get_event_relpath(eventPath); ok is FALSE when the
\* assertion fails.
get_event_relpath(root, eventPath) ==
    LET myroot == str_join(root) IN
    IF ~startswith(eventPath, myroot) THEN [ok |-> FALSE, relpath |-> <<>>]
    ELSE [ok |-> TRUE,
          relpath |-> str_split(SubSeq(eventPath, Len(myroot) + 2, Len(eventPath)))]

\* What a mutating action owes the observers: the path it changed, as a
\* list of items below the home directory, and the path as a string.
Change(items, kind, uid) ==
    [items |-> items, eventPath |-> str_join(items), kind |-> kind, uid |-> uid]

\* The observers whose root is a prefix of the path of change c.
ObserversOf(c) ==
    {u \in DOMAIN el.listeners : startswith(c.eventPath, el.listeners[u].root)}

InitNotify ==
    /\ el \in {[listeners |-> <<>>, luid |-> NoUid, dead |-> FALSE,
                P |-> [root |-> rp, uid |-> "p"], Q |-> [root |-> rq, uid |-> "q"],
                owed |-> {}, posted |-> 0, calls |-> <<>>] :
                  rp \in NotifyRoots, rq \in NotifyRoots}
    /\ now = 0
    /\ main = <<>>
    /\ shared = <<>>
    /\ red = <<>>
    /\ insync = {}
    /\ bh = <<>>
    /\ ic = IcIdle
    /\ SyncIdle
    /\ CfIdle
    /\ LsIdle
    /\ PvIdle

\* P.listenchanges(onchange): BlindFsListener(self.client, self, "", onchange)
\* and, in its thread, self.uid = self.client("listenchanges", root="").
NotifyListen ==
    /\ el.luid = NoUid
    /\ el' = [el EXCEPT !.luid = ObserverUid,
                        !.listeners = addObserver(@, ObserverUid, <<>>, now)]
    /\ UNCHANGED <<now, serverIdleVars>>

\* A receivechanges request of provider P or Q with one record: the server's
\* provider applies it and notify(params["root"] + "/" + path, op, uid) is
\* called.
NotifyReceiveChanges ==
    /\ el.posted < MaxNotify
    /\ \E by \in {el.P, el.Q}, path \in NotifyPaths, kind \in NotifyKinds :
         LET root == str_join(by.root)
             event == [eventRoot |-> root \o os_sep \o path, eventType |-> kind,
                       eventUid |-> by.uid, n |-> el.posted + 1]
             c == Change(by.root \o str_split(path), kind, by.uid)
         IN el' = [el EXCEPT !.listeners = notify(@, event, now),
                             !.posted = @ + 1,
                             !.owed = @ \cup {[c |-> c, to |-> u] : u \in ObserversOf(c)}]
    /\ UNCHANGED <<now, serverIdleVars>>

\* A backup request with one file part named selpath: the file is moved into
\* place and the answer sent.
NotifyBackup ==
    /\ el.posted < MaxNotify
    /\ \E selpath \in NotifyPaths :
         LET c == Change(str_split(selpath), "file", NoUid)
         IN el' = [el EXCEPT !.posted = @ + 1,
                             !.owed = @ \cup {[c |-> c, to |-> u] : u \in ObserversOf(c)}]
    /\ UNCHANGED <<now, serverIdleVars>>

\* A mkdir request: os.makedirs(localpath) and the answer 0.
NotifyMkdir ==
    /\ el.posted < MaxNotify
    /\ \E relpath \in NotifyPaths :
         LET c == Change(str_split(relpath), "directory", NoUid)
         IN el' = [el EXCEPT !.posted = @ + 1,
                             !.owed = @ \cup {[c |-> c, to |-> u] : u \in ObserversOf(c)}]
    /\ UNCHANGED <<now, serverIdleVars>>

\* BlindFsListener.run: changes = self.client("pollchanges", uid=self.uid)
\* and self.onchange(self.sender, eventPath, eventType, eventUid) for each,
\* which is onchange_src_to_dst or onchange_dst_to_src of bsync: it starts
\* with sender.get_event_relpath(path).  A failed assertion leaves run().
RECURSIVE OnChangeEach(_, _, _)
OnChangeEach(calls, changes, root) ==
    IF changes = <<>> THEN calls
    ELSE LET ch == Head(changes)
             res == get_event_relpath(root, ch.eventRoot)
             call == [path |-> ch.eventRoot, kind |-> ch.eventType,
                      uid |-> ch.eventUid, ok |-> res.ok, relpath |-> res.relpath]
         IN IF res.ok THEN OnChangeEach(Append(calls, call), Tail(changes), root)
            ELSE Append(calls, call)

NotifyPoll ==
    /\ el.luid # NoUid
    /\ ~el.dead
    /\ LET g == getEvents(el.listeners, el.luid, now)
           calls == OnChangeEach(el.calls, g.result, el.P.root)
       IN /\ g.ok
          /\ g.result # <<>>
          /\ el' = [el EXCEPT !.listeners = g.listeners,
                              !.calls = calls,
                              !.dead = ~Last(calls).ok]
    /\ UNCHANGED <<now, serverIdleVars>>

NextNotify ==
    \/ NotifyListen
    \/ NotifyReceiveChanges
    \/ NotifyBackup
    \/ NotifyMkdir
    \/ NotifyPoll

SpecNotify == InitNotify /\ [][NextNotify]_vars

\* C34: a listener never invokes on_change for a change caused by the
\* listened provider itself: the BlindFsListener of P forwards no event whose
\* originator uid is the uid of P.
C34_OwnChangesFiltered ==
    \A i \in 1..Len(el.calls) : el.calls[i].uid # el.P.uid

\* The notifications posted to observer u and not yet polled, and those
\* handed to on_change, as (path, kind) pairs.
PostedTo(u) ==
    {<<el.listeners[u].events[i].eventRoot, el.listeners[u].events[i].eventType>> :
        i \in 1..Len(el.listeners[u].events)}
    \cup {<<el.calls[i].path, el.calls[i].kind>> : i \in 1..Len(el.calls)}

\* C35: every mutating server action, backup, mkdir and receivechanges,
\* posts for each path it changes a notification (event_path, kind, uid) to
\* every live observer whose root is a prefix of event_path.
C35_EveryChangeNotified ==
    \A o \in el.owed :
        o.to \in DOMAIN el.listeners =>
            \E n \in PostedTo(o.to) :
                /\ n[2] = o.c.kind
                /\ n[1] \in {o.c.eventPath, os_sep \o o.c.eventPath}

\* C40: for every event the listener of P delivers to on_change, the path
\* lies under the root of P: get_event_relpath is defined and returns the
\* items of the path below that root.
C40_EventUnderRoot ==
    \A i \in 1..Len(el.calls) :
        LET call == el.calls[i]
            items == SelectSeq(str_split(call.path), LAMBDA item : item # <<>>)
        IN /\ call.ok
           /\ IsPrefix(el.P.root, items)
           /\ call.relpath = SubSeq(items, Len(el.P.root) + 1, Len(items))

(***************************************************************************)
(* Continuous sync with syncs that raise (C33, C36, C37, C39)              *)
(***************************************************************************)
\* do_sync: syncdir.sync raises (a ReqError of the server, an EInvalidPath of
\* a provider); control passes to the finally clause.
MainSyncRaise ==
    /\ main.pc \in {"insync", "insync2"}
    /\ insync' = insync \ {MainThread}
    /\ main' = [main EXCEPT !.pc = "raised"]
    /\ UNCHANGED <<cf, el, ls, pv, ic, syncVars, now, shared, red, bh>>

\* onchange_any raises, for example LocalFsProvider.listdir of a drilled
\* path that is a file or is gone.  FsEventReducer.run calls self.onevent
\* outside any try statement: the exception leaves run and the thread ends.
ReducerSyncRaise ==
    \E r \in DOMAIN red :
      /\ red[r].pc = "insync"
      /\ red' = [red EXCEPT ![r].pc = "dead"]
      /\ insync' = insync \ {r}
      /\ UNCHANGED <<cf, el, ls, pv, ic, syncVars, now, main, shared, bh>>

NextFail ==
    \/ AddEvent
    \/ Tick
    \/ MainAcquire
    \/ MainClear
    \/ MainSyncEnter
    \/ MainSyncExit
    \/ MainSyncRaise
    \/ MainFinally
    \/ MainRelease
    \/ MainBgSync
    \/ MainStop
    \/ ReducerTop
    \/ ReducerCheck
    \/ ReducerDrain
    \/ ReducerProcess
    \/ ReducerSyncExit
    \/ ReducerSyncRaise

PathB == <<"b">>

\* Both reducers, fed the unrelated events a and b.
InitFail ==
    InitBgWith({"src_to_dst", "dst_to_src"}, {PathA, PathB}, Cardinality({PathA, PathB}),
               BOOLEAN)

SpecFail == InitFail /\ [][NextFail]_vars

Unrelated(p, q) == ~IsPrefix(p, q) /\ ~IsPrefix(q, p)

\* C33: event-driven syncs start in the order in which their events
\* arrived: when e1 is added to a reducer before e2 and neither subsumes the
\* other, the handler is called for e1 before it is called for e2.
C33_StartedInArrivalOrder ==
    \A r \in DOMAIN red :
        \A i \in 1..Len(bh.added[r]), j \in 1..Len(bh.added[r]) :
            LET e1 == bh.added[r][i]
                e2 == bh.added[r][j]
            IN (i < j /\ e1.taken /\ e2.taken /\ Unrelated(e1.relpath, e2.relpath))
                   => \A m \in 1..Len(bh.calls[r]), n \in 1..Len(bh.calls[r]) :
                          (bh.calls[r][m] = e1.relpath /\ bh.calls[r][n] = e2.relpath)
                              => m < n

\* C36: can_trigger is clear only while do_sync holds sync_lock, and it is
\* set whenever no do_sync is running, also after a sync has raised.
C36_CanTriggerRestored ==
    /\ ~shared.can_trigger => LockHeld
    /\ main.pc \in {"do_sync", "bg", "stopped", "failed"} => shared.can_trigger

\* A sync of do_sync("BGSYNC") has raised and do_sync has been left.
C36_Witness ==
    /\ main.pc = "failed"
    /\ ~main.first
    /\ ~LockHeld
    /\ shared.can_trigger

\* C37: every sync starts with the syncdelete option of its own direction:
\* the first pass of do_sync with "d" in mode, its reverse pass with False,
\* an event-driven sync with the value given to its reducer.
C37_OwnSyncdelete ==
    [][/\ MainThread \in insync' \ insync =>
              shared'.syncdelete = IF main.pc = "sync" THEN main.syncdelete ELSE FALSE
       /\ \A r \in DOMAIN red :
              r \in insync' \ insync => shared'.syncdelete = red[r].syncdelete]_vars

\* C39: an exception of the handler does not stop the reducer: its thread
\* ends only after request_stop.
C39_ReducerKeepsRunning ==
    \A r \in DOMAIN red : red[r].pc \in {"exit", "dead"} => red[r].stop_requested

====
